---------------------------- MODULE Spec2Model ----------------------------
(***************************************************************************)
(* Model of the Kraken trading bot: the nonce authority of the exchange    *)
(* client (src/src/exchange_api.py), the counter scan of the strategy      *)
(* engine (src/src/strategy.py) and the control cycle of the execution     *)
(* controller (src/src/bot.py).                                            *)
(*                                                                         *)
(* Three specifications share the variables:                               *)
(*   SpecNonce     threads calling KrakenNonceManager.get_nonce            *)
(*   SpecStrategy  BTCCharlieStrategy.update_market_data on candle batches *)
(*   Spec          TradingBot.start / _main_loop / _shutdown               *)
(* Each leaves the variables of the other two at their initial values.     *)
(***************************************************************************)
EXTENDS Integers, Sequences, FiniteSets, TLC

VARIABLES
    \* ---- KrakenNonceManager (exchange_api.py 53-65)
    last_nonce,         \* self.last_nonce
    lock,               \* self.lock: 0 when free, else the thread holding it
    tpc,                \* per thread: position inside get_nonce
    tnonce,             \* per thread: the local variable nonce
    tclock,             \* per thread: the value time.time()*1000 gave it
    issued,             \* history: the nonces returned, in order of return
    \* ---- KrakenExchange._make_request (exchange_api.py 149-253)
    time_now,           \* time.time(), in tenths of a second
    lockout_until,      \* self.lockout_until
    lockout_cause,      \* history: the error class that set lockout_until last
    last_request_time,  \* self.last_request_time
    cpc,                \* per task: where its _make_request is suspended, or "idle"
    cwake,              \* per task: the time its asyncio.sleep ends
    retry_count,        \* per task: the parameter retry_count
    call,               \* per task, history: the call of _make_request it made last
    transmitted,        \* history: the number of requests transmitted
    last_request,       \* history: the request transmitted last
    \* ---- BTCCharlieStrategy (strategy.py)
    market_data,        \* self.market_data: symbol -> retained rows
    counters,           \* self.counters: symbol -> [countBuy, countSell]
    generated,          \* history: the last call of generate_signal and its result
    empty_fed,          \* history: symbols whose last update was passed no candles
    \* ---- the exchange
    ohlc,               \* per pair, the closes of the candles the venue holds
    candles_left,       \* candles the venue will still close in this behaviour
    exch_positions,     \* the open positions the venue reports
    sent,               \* the AddOrder requests transmitted to the venue
    \* ---- TradingBot (bot.py)
    pc,                 \* position of the bot's coroutine (start, _main_loop, _shutdown)
    sig_idx,            \* _process_signals: index of the pair being processed
    config,             \* self.config and the options read from it by getattr
    is_running,         \* self.is_running
    emergency_stop,     \* self.emergency_stop
    now,                \* time.time(), in seconds since construction
    last_heartbeat,     \* self.last_heartbeat
    account_balance,    \* self.account_balance, in USD
    initial_balance,    \* self.initial_balance
    active_positions,   \* self.active_positions: symbol -> tracked position
    stats,              \* self.stats
    cycles,             \* history: iterations of the main loop begun
    cycle_stale,        \* history: the heartbeat was overdue when the cycle began
    last_exec,          \* history: the signal _process_signals handled last in this cycle
    liq_log,            \* history: the positions the liquidation passes handled
    shutdown_log,       \* history: what _shutdown has done
    balance_fetched,    \* history: the last get_balance returned the balances
    \* ---- the symbol translations of KrakenExchange
    translation,        \* a symbol on its way to the venue and back
    \* ---- one pass of _update_market_data and _process_signals (bot.py 208-241)
    cyc,                \* position in the two loops; history: what each pair met
    \* ---- HealthCheckServer (health_check.py)
    http_response,      \* the response a monitoring handler returned, until it is sent
    \* ---- the stochastic RSI columns (strategy.py 175-201, 253-336)
    price_column,       \* df['close'] of a frame
    stoch_columns,      \* df['stoch_rsi_k'] and df['stoch_rsi_d'] computed from it
    k_column,           \* df['stoch_rsi_k'] of a frame kept in market_data
    alert,              \* history: the last result of check_stoch_rsi_alerts
    \* ---- calls followed from their arguments to what they leave behind
    fed,                \* history: the last call of update_market_data
    placed              \* history: two calls of place_order and what they sent

nonceVars == <<last_nonce, lock, tpc, tnonce, tclock, issued>>
stratVars == <<market_data, counters, generated, empty_fed, ohlc, candles_left>>
botVars == <<exch_positions, sent, pc, sig_idx, config, is_running, emergency_stop,
             now, last_heartbeat, account_balance, initial_balance,
             active_positions, stats, cycles, cycle_stale, last_exec, liq_log,
            shutdown_log, balance_fetched>>
clientVars == <<time_now, lockout_until, lockout_cause, last_request_time, cpc,
                cwake, retry_count, call, transmitted, last_request>>
symVars == <<translation>>
cycVars == <<cyc>>
monVars == <<http_response>>
indVars == <<price_column, stoch_columns, k_column, alert>>
callVars == <<fed, placed>>
vars == <<nonceVars, stratVars, botVars, clientVars, symVars, cycVars, monVars,
          indVars, callVars>>

(***************************************************************************)
(* Bounds of the model.                                                    *)
(***************************************************************************)
NumThreads == 2     \* concurrent callers of get_nonce
MaxClock == 3       \* the millisecond clock reads a value in 0..MaxClock
MaxIssued == 3      \* nonces handed out in one behaviour

Threads == 1..NumThreads

(***************************************************************************)
(* KrakenNonceManager                                                      *)
(***************************************************************************)
NonceIdle ==
    /\ last_nonce = 0
    /\ lock = 0
    /\ tpc = [t \in Threads |-> "idle"]
    /\ tnonce = [t \in Threads |-> 0]
    /\ tclock = [t \in Threads |-> 0]
    /\ issued = <<>>

\* A get_nonce that enters its body without taking the lock.
LockAvailableUnguarded(t) == TRUE

\* `with self.lock:` may be entered only while no thread holds the lock.
LockAvailable(t) == lock = 0

\* The calls in progress plus the calls returned.
CallsStarted == Len(issued) + Cardinality({t \in Threads : tpc[t] # "idle"})

\* with self.lock:  (enter)
AcquireLock(t) ==
    /\ tpc[t] = "idle"
    /\ CallsStarted < MaxIssued
    /\ LockAvailable(t)
    /\ lock' = t
    /\ tpc' = [tpc EXCEPT ![t] = "read"]
    /\ UNCHANGED <<last_nonce, tnonce, tclock, issued, stratVars, botVars,
                   clientVars, symVars,
                   cycVars, monVars, indVars, callVars>>

\* nonce = int(time.time() * 1000): the clock may stand still or step back.
ReadClock(t) ==
    /\ tpc[t] = "read"
    /\ \E c \in 0..MaxClock :
          /\ tnonce' = [tnonce EXCEPT ![t] = c]
          /\ tclock' = [tclock EXCEPT ![t] = c]
    /\ tpc' = [tpc EXCEPT ![t] = "compare"]
    /\ UNCHANGED <<last_nonce, lock, issued, stratVars, botVars,
                   clientVars, symVars,
                   cycVars, monVars, indVars, callVars>>

\* if nonce <= self.last_nonce: nonce = self.last_nonce + 1
BumpNonce(t) ==
    /\ tpc[t] = "compare"
    /\ tnonce' = [tnonce EXCEPT ![t] =
                     IF tnonce[t] <= last_nonce THEN last_nonce + 1 ELSE tnonce[t]]
    /\ tpc' = [tpc EXCEPT ![t] = "store"]
    /\ UNCHANGED <<last_nonce, lock, tclock, issued, stratVars, botVars,
                   clientVars, symVars,
                   cycVars, monVars, indVars, callVars>>

\* self.last_nonce = nonce
StoreNonce(t) ==
    /\ tpc[t] = "store"
    /\ last_nonce' = tnonce[t]
    /\ tpc' = [tpc EXCEPT ![t] = "return"]
    /\ UNCHANGED <<lock, tnonce, tclock, issued, stratVars, botVars,
                   clientVars, symVars,
                   cycVars, monVars, indVars, callVars>>

\* return str(nonce), leaving the with block
ReturnNonce(t) ==
    /\ tpc[t] = "return"
    /\ issued' = Append(issued, [nonce |-> tnonce[t], clock |-> tclock[t], by |-> t])
    /\ lock' = IF lock = t THEN 0 ELSE lock
    /\ tpc' = [tpc EXCEPT ![t] = "idle"]
    /\ UNCHANGED <<last_nonce, tnonce, tclock, stratVars, botVars,
                   clientVars, symVars,
                   cycVars, monVars, indVars, callVars>>

NonceNext ==
    \/ \E t \in Threads : AcquireLock(t)
    \/ \E t \in Threads : ReadClock(t)
    \/ \E t \in Threads : BumpNonce(t)
    \/ \E t \in Threads : StoreNonce(t)
    \/ \E t \in Threads : ReturnNonce(t)

(***************************************************************************)
(* KrakenExchange._make_request                                            *)
(*                                                                         *)
(* Time is counted in tenths of a second.  A task is a coroutine that      *)
(* calls _make_request; the code between two awaits runs without another   *)
(* task in between, and session.get / session.post block the event loop,   *)
(* so a request is transmitted and its response handled in one step.  A    *)
(* response is named by the branch of the handler it takes.                *)
(***************************************************************************)
MaxRequests == 4            \* requests transmitted in one behaviour

MinRequestInterval == 5     \* self.min_request_interval = 0.5
NonceRetryDelay == 1        \* asyncio.sleep(0.1)
MaxNonceRetries == 3        \* if retry_count < 3
KeyLockout == 9000          \* time.time() + 900
RateLimitLockout == 3000    \* time.time() + 300
MillisPerTick == 100        \* int(time.time() * 1000)

Tasks == {"cycle", "liquidation"}
ClientResponses == {"ok", "http_error", "invalid_key", "invalid_nonce", "rate_limit",
                    "other_error"}
Sleeps == {"lockout_sleep", "rate_sleep", "retry_sleep"}

\* No call of _make_request has been made yet.
NoRequestCall == [began |-> 0, locked |-> FALSE, waited |-> FALSE, sends |-> 0,
                  nonce |-> 0, result |-> "none"]

\* No request has been transmitted yet.
NothingSent == [task |-> "", at |-> 0, nonce |-> 0, retry |-> 0, lockout |-> 0,
                response |-> ""]

\* KrakenExchange.__init__; time.time() is far beyond last_request_time = 0.
ClientStart == MinRequestInterval

ClientIdle ==
    /\ time_now = ClientStart
    /\ lockout_until = 0
    /\ lockout_cause = "none"
    /\ last_request_time = 0
    /\ cpc = [t \in Tasks |-> "idle"]
    /\ cwake = [t \in Tasks |-> 0]
    /\ retry_count = [t \in Tasks |-> 0]
    /\ call = [t \in Tasks |-> NoRequestCall]
    /\ transmitted = 0
    /\ last_request = NothingSent

\* if self.lockout_until > time.time():
LockoutActive == lockout_until > time_now

\* time_since_last = current_time - self.last_request_time
TimeSinceLast == time_now - last_request_time

\* if time_since_last < self.min_request_interval:
TooSoon == TimeSinceLast < MinRequestInterval

\* self.nonce_manager.get_nonce(), called from the event loop's thread.
GetNonce ==
    IF time_now * MillisPerTick <= last_nonce THEN last_nonce + 1
    ELSE time_now * MillisPerTick

\* A handler that retries an invalid nonce once more than the source does.
RetryAllowedInclusive(count) == count <= MaxNonceRetries

\* if retry_count < 3:
RetryAllowed(count) == count < MaxNonceRetries

\* A handler that sets a lockout for an invalid key only.
LockoutAfterKeyOnly(response) ==
    IF response = "invalid_key" THEN time_now + KeyLockout ELSE lockout_until

\* A handler that answers every failed request with the rate-limit lockout.
LockoutAfterAnyError(response) ==
    CASE response = "ok" -> lockout_until
      [] response = "invalid_key" -> time_now + KeyLockout
      [] OTHER -> time_now + RateLimitLockout

\* self.lockout_until after the response has been handled.
LockoutAfter(response) ==
    CASE response = "invalid_key" -> time_now + KeyLockout
      [] response = "rate_limit" -> time_now + RateLimitLockout
      [] OTHER -> lockout_until

\* await asyncio.sleep(...): the task is suspended until the time `until`.
Suspend(t, where, until, count, c) ==
    /\ cpc' = [cpc EXCEPT ![t] = where]
    /\ cwake' = [cwake EXCEPT ![t] = until]
    /\ retry_count' = [retry_count EXCEPT ![t] = count]
    /\ call' = [call EXCEPT ![t] = c]
    /\ UNCHANGED <<lockout_until, lockout_cause, last_request_time, transmitted,
                   last_request, last_nonce>>

\* self.last_request_time = time.time() ... raise / return: the request is
\* signed with a new nonce, sent, and its response handled.
Transmit(t, count, c, response) ==
    /\ transmitted < MaxRequests
    /\ last_request_time' = time_now
    /\ last_nonce' = GetNonce
    /\ transmitted' = transmitted + 1
    /\ last_request' = [task |-> t, at |-> time_now, nonce |-> GetNonce,
                        retry |-> count, lockout |-> lockout_until,
                        response |-> response]
    /\ lockout_until' = LockoutAfter(response)
    /\ lockout_cause' = IF LockoutAfter(response) # lockout_until THEN response
                        ELSE lockout_cause
    /\ IF response = "invalid_nonce" /\ RetryAllowed(count)
       THEN /\ cpc' = [cpc EXCEPT ![t] = "retry_sleep"]
            /\ cwake' = [cwake EXCEPT ![t] = time_now + NonceRetryDelay]
            /\ retry_count' = [retry_count EXCEPT ![t] = count]
            /\ call' = [call EXCEPT ![t] = [c EXCEPT !.sends = @ + 1,
                                                     !.nonce = GetNonce]]
       ELSE /\ cpc' = [cpc EXCEPT ![t] = "idle"]
            /\ cwake' = [cwake EXCEPT ![t] = 0]
            /\ retry_count' = [retry_count EXCEPT ![t] = 0]
            /\ call' = [call EXCEPT ![t] =
                          [c EXCEPT !.sends = @ + 1,
                                    !.nonce = GetNonce,
                                    !.result = IF response = "ok" THEN "ok"
                                               ELSE "failed"]]

\* _make_request from the statement `entry` up to its next await or its end.
RunFrom(t, entry, count, c, response) ==
    IF entry = "lockout" /\ LockoutActive
    THEN Suspend(t, "lockout_sleep", lockout_until, count, [c EXCEPT !.waited = TRUE])
    ELSE IF entry # "send" /\ TooSoon
    THEN Suspend(t, "rate_sleep", time_now + (MinRequestInterval - TimeSinceLast),
                 count, c)
    ELSE Transmit(t, count, c, response)

\* A task calls _make_request(method, endpoint, data).
MakeRequest(t) ==
    /\ cpc[t] = "idle"
    /\ \E response \in ClientResponses :
         RunFrom(t, "lockout", 0,
                 [began |-> time_now,
                  locked |-> LockoutActive /\ lockout_cause = "invalid_key",
                  waited |-> FALSE, sends |-> 0, nonce |-> 0, result |-> "pending"],
                 response)
    /\ UNCHANGED <<time_now, lock, tpc, tnonce, tclock, issued, stratVars, botVars, symVars,
                   cycVars, monVars, indVars, callVars>>

\* The statement a task resumes at when its sleep ends.
ResumeEntry(where) ==
    CASE where = "lockout_sleep" -> "rate"
      [] where = "rate_sleep" -> "send"
      [] where = "retry_sleep" -> "lockout"

\* asyncio.sleep returns; after the retry delay _make_request calls itself
\* with retry_count + 1.
WakeUp(t) ==
    /\ cpc[t] \in Sleeps
    /\ time_now >= cwake[t]
    /\ \E response \in ClientResponses :
         RunFrom(t, ResumeEntry(cpc[t]),
                 IF cpc[t] = "retry_sleep" THEN retry_count[t] + 1 ELSE retry_count[t],
                 call[t], response)
    /\ UNCHANGED <<time_now, lock, tpc, tnonce, tclock, issued, stratVars, botVars, symVars,
                   cycVars, monVars, indVars, callVars>>

\* Time passes until the sleep of some task is over.
PassTime ==
    /\ \E t \in Tasks :
         /\ cpc[t] \in Sleeps
         /\ cwake[t] > time_now
         /\ time_now' = cwake[t]
    /\ UNCHANGED <<lockout_until, lockout_cause, last_request_time, cpc, cwake,
                   retry_count, call, transmitted, last_request, nonceVars,
                   stratVars, botVars, symVars,
                   cycVars, monVars, indVars, callVars>>

ClientNext ==
    \/ \E t \in Tasks : MakeRequest(t)
    \/ \E t \in Tasks : WakeUp(t)
    \/ PassTime

(***************************************************************************)
(* BTCCharlieStrategy                                                      *)
(*                                                                         *)
(* A symbol is the sequence of the parts of its name between "/" signs:    *)
(* "BTC/USDT" is <<"BTC", "USDT">>.  A candle batch is the sequence of its *)
(* close prices, oldest first.  An EMA value at candle i (counted from 0)  *)
(* is kept as its exact numerator over EmaDen^i, so fast and slow EMA of   *)
(* one candle compare by their numerators.                                 *)
(***************************************************************************)
MaxCandles == 5             \* candles a young venue closes in one behaviour
MaxWarmCandles == 1         \* candles a venue with a history closes in one behaviour

FastEmaPeriod == 12
SlowEmaPeriod == 25
MaxDataPoints == 500
RetainedCandles == 200
HistoryLimit == 200
StochRsiLength == 14
StochLength == 14

TradingPairs == {<<"BTC", "USDT">>, <<"ETH", "USDT">>}
Closes == {4, 14, 27}

\* generate_signal returned None.
NoSignal == [signal |-> "none", signal_type |-> "none", price |-> 0]

\* No call of generate_signal yet, or none since the data changed.
NoCall == [symbol |-> <<>>, result |-> NoSignal]

\* The strategy as constructed, and a venue that has no candles yet.
StratIdle ==
    /\ market_data = <<>>
    /\ counters = <<>>
    /\ generated = NoCall
    /\ empty_fed = {}
    /\ ohlc = [symbol \in TradingPairs |-> <<>>]
    /\ candles_left = 0

RECURSIVE GCD(_, _)
GCD(a, b) == IF b = 0 THEN a ELSE GCD(b, a % b)

\* The common denominator of the two smoothing factors 2/(period+1).
EmaDen == ((FastEmaPeriod + 1) * (SlowEmaPeriod + 1))
              \div GCD(FastEmaPeriod + 1, SlowEmaPeriod + 1)

\* 2/(period+1) as a numerator over EmaDen.
EmaWeight(period) == (2 * EmaDen) \div (period + 1)

\* One step of df['close'].ewm(span=period, adjust=False).mean():
\* y[i] = a*close[i] + (1-a)*y[i-1].  prev is the numerator of y[i-1] over
\* scale (= EmaDen^(i-2)); the result is the numerator of y[i] over
\* scale*EmaDen.
EmaStep(period, close, prev, scale) ==
    EmaWeight(period) * close * scale + (EmaDen - EmaWeight(period)) * prev

\* df['buy'] = df['ema_fast'] > df['ema_slow']
BuyCondition(ema_fast, ema_slow) == ema_fast > ema_slow

\* df['sell'] = df['ema_fast'] < df['ema_slow']
SellCondition(ema_fast, ema_slow) == ema_fast < ema_slow

\* _calculate_indicators from candle i on: the EMAs are seeded with the first
\* close (adjust=False), then stepped; ema_fast and ema_slow are the
\* numerators after candle i-1 over scale.
RECURSIVE IndicatorScan(_, _, _, _, _, _)
IndicatorScan(closes, i, ema_fast, ema_slow, scale, acc) ==
    IF i > Len(closes) THEN acc
    ELSE LET f == IF i = 1 THEN closes[1]
                  ELSE EmaStep(FastEmaPeriod, closes[i], ema_fast, scale)
             s == IF i = 1 THEN closes[1]
                  ELSE EmaStep(SlowEmaPeriod, closes[i], ema_slow, scale)
             sc == IF i = 1 THEN 1 ELSE scale * EmaDen
             \* f/sc and s/sc are kept in lowest common terms
             g == GCD(GCD(f, s), sc)
             row == [close |-> closes[i],
                     buy   |-> BuyCondition(f, s),
                     sell  |-> SellCondition(f, s)]
         IN  IndicatorScan(closes, i + 1, f \div g, s \div g, sc \div g,
                           Append(acc, row))

\* The rows _calculate_indicators adds the buy and sell columns to.
CalculateIndicators(closes) == IndicatorScan(closes, 1, 0, 0, 1, <<>>)

\* A counter step that forgets to reset the opposite counter.
CounterStepNoReset(buy, sell, countBuy, countSell) ==
    [countBuy  |-> IF buy THEN countBuy + 1 ELSE countBuy,
     countSell |-> IF sell THEN countSell + 1 ELSE countSell]

\* if buy: countBuy += 1; countSell = 0
\* if sell: countSell += 1; countBuy = 0      (two ifs, one after the other)
CounterStep(buy, sell, countBuy, countSell) ==
    LET b1 == IF buy THEN countBuy + 1 ELSE countBuy
        s1 == IF buy THEN 0 ELSE countSell
    IN  [countBuy  |-> IF sell THEN 0 ELSE b1,
         countSell |-> IF sell THEN s1 + 1 ELSE s1]

\* buysignal = countBuy < 2 and countBuy > 0 and countSell < 1 and buy and not prev_buy
BuySignal(countBuy, countSell, buy, prev_buy) ==
    countBuy < 2 /\ countBuy > 0 /\ countSell < 1 /\ buy /\ ~prev_buy

\* The sell line written as a copy of the buy line, its operands not swapped.
SellSignalCopied(countBuy, countSell, buy, sell, prev_buy, prev_sell) ==
    countBuy > 0 /\ countBuy < 2 /\ countSell < 1 /\ buy /\ ~prev_buy

\* sellsignal = countSell > 0 and countSell < 2 and countBuy < 1 and sell and not prev_sell
SellSignal(countBuy, countSell, buy, sell, prev_buy, prev_sell) ==
    countSell > 0 /\ countSell < 2 /\ countBuy < 1 /\ sell /\ ~prev_sell

\* The loop of _calculate_counter_logic from row i on, the local counters
\* being countBuy and countSell after row i-1; acc holds the rows done.
RECURSIVE CounterScan(_, _, _, _, _)
CounterScan(df, i, countBuy, countSell, acc) ==
    IF i > Len(df) THEN acc
    ELSE LET c == CounterStep(df[i].buy, df[i].sell, countBuy, countSell)
             row == [close      |-> df[i].close,
                     buy        |-> df[i].buy,
                     sell       |-> df[i].sell,
                     countBuy   |-> c.countBuy,
                     countSell  |-> c.countSell,
                     buysignal  |-> IF i > 1
                                    THEN BuySignal(c.countBuy, c.countSell,
                                                   df[i].buy, df[i - 1].buy)
                                    ELSE FALSE,
                     sellsignal |-> IF i > 1
                                    THEN SellSignal(c.countBuy, c.countSell,
                                                    df[i].buy, df[i].sell,
                                                    df[i - 1].buy, df[i - 1].sell)
                                    ELSE FALSE,
                     bull       |-> c.countBuy > 1,
                     bear       |-> c.countSell > 1]
         IN  CounterScan(df, i + 1, c.countBuy, c.countSell, Append(acc, row))

\* A scan that takes up the counters stored for the symbol by the last update.
ScanStartStored(symbol) ==
    IF symbol \in DOMAIN counters THEN counters[symbol]
    ELSE [countBuy |-> 0, countSell |-> 0]

\* countBuy = 0; countSell = 0 (lines 133-134): the locals the scan counts
\* in, whatever self.counters[symbol] holds.
ScanStart(symbol) == [countBuy |-> 0, countSell |-> 0]

\* _calculate_counter_logic(df, symbol)
CalculateCounterLogic(df, symbol) ==
    CounterScan(df, 1, ScanStart(symbol).countBuy, ScanStart(symbol).countSell, <<>>)

\* df.iloc[-n:]
LastRows(df, n) ==
    IF Len(df) <= n THEN df ELSE SubSeq(df, Len(df) - n + 1, Len(df))

\* d[key] = value on a dict
DictSet(d, key, value) ==
    [k \in DOMAIN d \cup {key} |-> IF k = key THEN value ELSE d[k]]

\* The venue closes one more candle of a pair.
NewCandle(symbol) ==
    /\ candles_left > 0
    /\ \E c \in Closes : ohlc' = [ohlc EXCEPT ![symbol] = Append(@, c)]
    /\ candles_left' = candles_left - 1
    /\ generated' = NoCall
    /\ UNCHANGED <<market_data, counters, empty_fed, nonceVars, botVars,
                   clientVars, symVars,
                   cycVars, monVars, indVars, callVars>>

\* get_historical_data(symbol, timeframe, limit): candles[-limit:]
GetHistoricalData(symbol, limit) == LastRows(ohlc[symbol], limit)

\* The rows a frame starts with.
FirstRows(df, n) == IF Len(df) <= n THEN df ELSE SubSeq(df, 1, n)

\* if len(df) > max_points: df = df.iloc[-max_points:]
IndicatorRows(df) == IF Len(df) > MaxDataPoints THEN LastRows(df, MaxDataPoints) ELSE df

\* A window of the oldest rows.
RetainedRowsOldest(df) == FirstRows(df, RetainedCandles)

\* self.market_data[symbol] = df.iloc[-200:]
RetainedRows(df) == LastRows(df, RetainedCandles)

\* The frame update_market_data builds from a batch of at least one candle.
MarketFrame(batch, symbol) ==
    CalculateCounterLogic(CalculateIndicators(IndicatorRows(batch)), symbol)

\* update_market_data(symbol, ohlcv_data), called by _update_market_data with
\* get_historical_data(symbol, timeframe, limit=200).
UpdateMarketData(symbol) ==
    /\ Len(GetHistoricalData(symbol, HistoryLimit)) >= 1
    /\ LET df == MarketFrame(GetHistoricalData(symbol, HistoryLimit), symbol)
       IN  /\ counters' = DictSet(counters, symbol,
                                  [countBuy  |-> df[Len(df)].countBuy,
                                   countSell |-> df[Len(df)].countSell])
           /\ market_data' = DictSet(market_data, symbol, RetainedRows(df))
    /\ generated' = NoCall
    /\ empty_fed' = empty_fed \ {symbol}
    /\ UNCHANGED <<ohlc, candles_left, nonceVars, botVars,
                   clientVars, symVars,
                   cycVars, monVars, indVars, callVars>>

\* update_market_data(symbol, []), as _update_market_data calls it when
\* get_historical_data caught a failure and returned []: the frame has no
\* 'timestamp' column, line 72 raises KeyError, and what is stored stays.
UpdateMarketDataEmpty(symbol) ==
    /\ symbol \notin empty_fed
    /\ empty_fed' = empty_fed \cup {symbol}
    /\ generated' = NoCall
    /\ UNCHANGED <<market_data, counters, ohlc, candles_left, nonceVars, botVars,
                   clientVars, symVars,
                   cycVars, monVars, indVars, callVars>>

\* max(self.slow_ema_period, self.stoch_rsi_length + self.stoch_length)
MinHistory ==
    IF SlowEmaPeriod > StochRsiLength + StochLength
    THEN SlowEmaPeriod ELSE StochRsiLength + StochLength

\* A signal read from the oldest stored candle.
OldestRow(df) == df[1]

\* latest = df.iloc[-1]
LatestRow(df) == df[Len(df)]

\* generate_signal(symbol): a StrategySignal is its signal, its signal_type
\* and its price.
GenerateSignal(symbol) ==
    IF symbol \notin DOMAIN market_data THEN NoSignal
    ELSE IF Len(market_data[symbol]) < MinHistory THEN NoSignal
    ELSE IF LatestRow(market_data[symbol]).buysignal
    THEN [signal |-> "buy", signal_type |-> "bull",
          price |-> LatestRow(market_data[symbol]).close]
    ELSE IF LatestRow(market_data[symbol]).sellsignal
    THEN [signal |-> "sell", signal_type |-> "bear",
          price |-> LatestRow(market_data[symbol]).close]
    ELSE NoSignal

\* A call of generate_signal, as _process_signals makes it.
CallGenerateSignal(symbol) ==
    /\ generated # [symbol |-> symbol, result |-> GenerateSignal(symbol)]
    /\ generated' = [symbol |-> symbol, result |-> GenerateSignal(symbol)]
    /\ UNCHANGED <<market_data, counters, empty_fed, ohlc, candles_left, nonceVars, botVars,
                   clientVars, symVars,
                   cycVars, monVars, indVars, callVars>>

StrategyNext ==
    \/ \E symbol \in TradingPairs : NewCandle(symbol)
    \/ \E symbol \in TradingPairs : UpdateMarketData(symbol)

SignalNext ==
    \/ \E symbol \in TradingPairs : NewCandle(symbol)
    \/ \E symbol \in TradingPairs : UpdateMarketData(symbol)
    \/ \E symbol \in TradingPairs : UpdateMarketDataEmpty(symbol)
    \/ \E symbol \in TradingPairs : CallGenerateSignal(symbol)


(***************************************************************************)
(* The venue, as far as the controller sees it                             *)
(***************************************************************************)
\* What the venue answers to a request: "ok" is a 200 response without error,
\* "error" any failure _make_request raises after the request went out.
Responses == {"ok", "error"}

\* OpenPositions: answered with the positions, with an error get_positions
\* turns into an empty list (lines 346-347), or with another failure.
PositionAnswers == {"ok", "feature_disabled", "error"}

\* pos_data["pair"] is the venue's pair code, which holds no "/".
VenuePositions ==
    {<<>>,
     <<[symbol |-> <<"XXBTZUSD">>, side |-> "long", size |-> 2],
       [symbol |-> <<"XETHZUSD">>, side |-> "short", size |-> 3]>>}

NoRequest == [pair |-> "", type |-> "", ordertype |-> "", volume |-> [num |-> 0, den |-> 1],
              origin |-> "none"]

\* kraken_map.get(name, name)
KrakenMap(name) ==
    CASE name = "BTC"  -> "XBT"
      [] name = "USDT" -> "USD"
      [] name = "USDC" -> "USD"
      [] OTHER         -> name

\* _convert_symbol_to_kraken: `base, quote = symbol.split("/")` raises
\* ValueError unless the symbol has exactly two parts.
ConvertSymbolToKraken(symbol) ==
    IF Len(symbol) # 2
    THEN [raised |-> TRUE, pair |-> ""]
    ELSE [raised |-> FALSE, pair |-> KrakenMap(symbol[1]) \o KrakenMap(symbol[2])]

\* The assets of the model; a canonical symbol is BASE/QUOTE of two of them,
\* and a name without "/" is what get_positions hands back.
Assets == {"BTC", "ETH", "SOL", "USDT", "USDC", "USD", "EUR"}
Symbols == {<<b, q>> : b, q \in Assets} \cup {<<b>> : b \in Assets}

\* The keys of kraken_map.
AliasKeys == {"BTC", "USDT", "USDC"}

\* No symbol is being translated.
NoConv == [stage |-> "none", symbol |-> <<>>, legs |-> <<>>, pair |-> "", back |-> <<>>]

SymIdle == translation = NoConv

(***************************************************************************)
(* The floating-point values of the indicator columns, in exact            *)
(* arithmetic: a number n/d in lowest terms, an infinity, or NaN.          *)
(***************************************************************************)
RECURSIVE Gcd(_, _)
Gcd(a, b) == IF b = 0 THEN a ELSE Gcd(b, a % b)

Abs(x) == IF x < 0 THEN -x ELSE x

Sign(x) == IF x < 0 THEN -1 ELSE IF x > 0 THEN 1 ELSE 0

NaN == [kind |-> "nan", n |-> 0, d |-> 1]

Inf(sign) == [kind |-> "inf", n |-> sign, d |-> 1]

\* n/d for d > 0, in lowest terms
Frac(n, d) ==
    LET g == Gcd(Abs(n), d)
    IN  [kind |-> "num", n |-> n \div g, d |-> d \div g]

Num(x) == Frac(x, 1)

IsNum(a) == a.kind = "num"

\* a + b
FAdd(a, b) ==
    IF a.kind = "nan" \/ b.kind = "nan" THEN NaN
    ELSE IF a.kind = "inf" /\ b.kind = "inf" THEN (IF a.n = b.n THEN a ELSE NaN)
    ELSE IF a.kind = "inf" THEN a
    ELSE IF b.kind = "inf" THEN b
    ELSE LET g == Gcd(a.d, b.d)
         IN  Frac(a.n * (b.d \div g) + b.n * (a.d \div g), (a.d \div g) * b.d)

\* -a
FNeg(a) == IF a.kind = "nan" THEN NaN ELSE [a EXCEPT !.n = -a.n]

\* a - b
FSub(a, b) == FAdd(a, FNeg(b))

\* a * b
FMul(a, b) ==
    IF a.kind = "nan" \/ b.kind = "nan" THEN NaN
    ELSE IF a.kind = "inf" \/ b.kind = "inf"
    THEN (IF a.n = 0 \/ b.n = 0 THEN NaN ELSE Inf(Sign(a.n) * Sign(b.n)))
    ELSE LET g1 == Gcd(Abs(a.n), b.d)
             g2 == Gcd(Abs(b.n), a.d)
         IN  Frac((a.n \div g1) * (b.n \div g2), (a.d \div g2) * (b.d \div g1))

\* a / b: x/0 is an infinity, 0/0 is NaN
FDiv(a, b) ==
    IF a.kind = "nan" \/ b.kind = "nan" THEN NaN
    ELSE IF b.kind = "inf" THEN (IF a.kind = "inf" THEN NaN ELSE Num(0))
    ELSE IF a.kind = "inf" THEN Inf(a.n * (IF b.n < 0 THEN -1 ELSE 1))
    ELSE IF b.n = 0 THEN (IF a.n = 0 THEN NaN ELSE Inf(Sign(a.n)))
    ELSE FMul(a, [kind |-> "num", n |-> Sign(b.n) * b.d, d |-> Abs(b.n)])

\* a < b; every comparison with NaN is false
FLt(a, b) ==
    /\ a.kind # "nan" /\ b.kind # "nan"
    /\ IF a.kind = "inf" THEN a.n < 0 /\ ~(b.kind = "inf" /\ b.n < 0)
       ELSE IF b.kind = "inf" THEN b.n > 0
       ELSE a.n * b.d < b.n * a.d

\* a == b
FEq(a, b) == a.kind # "nan" /\ b.kind # "nan" /\ a = b

\* a <= b
FLe(a, b) == FLt(a, b) \/ FEq(a, b)

\* a > b
FGt(a, b) == FLt(b, a)

\* a >= b
FGe(a, b) == FLe(b, a)

\* No pass over the trading pairs has begun.
NoPass ==
    [phase |-> "idle", idx |-> 0, ran |-> FALSE,
     fetch |-> [symbol \in TradingPairs |-> "none"],
     batch |-> [symbol \in TradingPairs |-> <<>>],
     updated |-> {},
     handled |-> [symbol \in TradingPairs |->
                    [done |-> FALSE, raised |-> FALSE, result |-> NoSignal]]]

CycIdle == cyc = NoPass

\* No monitoring request has been answered.
NoResponse == [endpoint |-> "none", body |-> [none |-> TRUE]]

MonIdle == http_response = NoResponse

\* check_stoch_rsi_alerts returned None.
NoAlert == [alert_type |-> "none", stoch_k |-> NaN, stoch_d |-> NaN]

\* check_stoch_rsi_alerts has not been called on the frame as it is.
NoCheck == [called |-> FALSE, result |-> NoAlert]

\* update_market_data has not been called.
NoFeed == [symbol |-> <<>>, batch |-> <<>>, indicator_rows |-> 0]

\* place_order has not been called.
NoOrders == [args |-> <<>>, requests |-> <<>>]

CallIdle ==
    /\ fed = NoFeed
    /\ placed = NoOrders

IndIdle ==
    /\ price_column = <<>>
    /\ stoch_columns = [rsi |-> <<>>, k |-> <<>>, d |-> <<>>]
    /\ k_column = <<>>
    /\ alert = NoCheck

\* The key under which Balance lists an asset, as its first character and
\* the rest: XXBT, XETH, ZUSD, ZEUR, and the plain code of a newer asset.
BalanceKey(code) ==
    CASE code = "XBT"  -> [head |-> "X", tail |-> "XBT"]
      [] code = "ETH"  -> [head |-> "X", tail |-> "ETH"]
      [] code = "USD"  -> [head |-> "Z", tail |-> "USD"]
      [] code = "EUR"  -> [head |-> "Z", tail |-> "EUR"]
      [] code = "SOL"  -> [head |-> "S", tail |-> "OL"]
      [] code = "USDT" -> [head |-> "U", tail |-> "SDT"]
      [] code = "USDC" -> [head |-> "U", tail |-> "SDC"]

\* get_balance: a key that starts with 'Z' loses the 'Z', 'XXBT' becomes
\* 'BTC', every other key stays.
BalanceCurrency(key) ==
    IF key.head = "Z" THEN key.tail
    ELSE IF key.head = "X" /\ key.tail = "XBT" THEN "BTC"
    ELSE key.head \o key.tail

\* A caller takes up a symbol.
TakeSymbol(symbol) ==
    /\ translation.stage = "none"
    /\ translation' = [NoConv EXCEPT !.stage = "input", !.symbol = symbol]
    /\ UNCHANGED <<nonceVars, stratVars, botVars, clientVars, cycVars, monVars,
                   indVars, callVars>>

\* _convert_symbol_to_kraken(symbol)
ConvertSymbol ==
    /\ translation.stage = "input"
    /\ LET c == ConvertSymbolToKraken(translation.symbol)
       IN  translation' = IF c.raised
                   THEN [translation EXCEPT !.stage = "raised"]
                   ELSE [translation EXCEPT !.stage = "venue", !.pair = c.pair,
                                     !.legs = <<KrakenMap(translation.symbol[1]),
                                                KrakenMap(translation.symbol[2])>>]
    /\ UNCHANGED <<nonceVars, stratVars, botVars, clientVars, cycVars, monVars,
                   indVars, callVars>>

\* get_positions: Position(symbol=pos_data["pair"]), the venue's pair code as
\* it comes.
PositionSymbol ==
    /\ translation.stage = "venue"
    /\ translation' = [translation EXCEPT !.stage = "position", !.back = <<translation.pair>>]
    /\ UNCHANGED <<nonceVars, stratVars, botVars, clientVars, cycVars, monVars,
                   indVars, callVars>>

\* get_balance: the currencies under which the two assets of the pair are
\* returned.
BalanceCurrencies ==
    /\ translation.stage = "venue"
    /\ translation' = [translation EXCEPT !.stage = "currency",
                            !.back = <<BalanceCurrency(BalanceKey(translation.legs[1])),
                                       BalanceCurrency(BalanceKey(translation.legs[2]))>>]
    /\ UNCHANGED <<nonceVars, stratVars, botVars, clientVars, cycVars, monVars,
                   indVars, callVars>>

SymbolNext ==
    \/ \E symbol \in Symbols : TakeSymbol(symbol)
    \/ ConvertSymbol
    \/ PositionSymbol
    \/ BalanceCurrencies

\* place_order: every exception, the one of the symbol conversion included,
\* becomes OrderResult(success=False); request is what went out, if anything.
PlaceOrder(symbol, side, amount, order_type, origin, response) ==
    LET conv == ConvertSymbolToKraken(symbol)
        order_data == [pair |-> conv.pair, type |-> side, ordertype |-> order_type,
                       volume |-> amount, origin |-> origin]
    IN  IF conv.raised
        THEN [success |-> FALSE, request |-> NoRequest]
        ELSE [success |-> response = "ok", request |-> order_data]

\* get_positions
GetPositions(answer) ==
    CASE answer = "ok"               -> [raised |-> FALSE, positions |-> exch_positions]
      [] answer = "feature_disabled" -> [raised |-> FALSE, positions |-> <<>>]
      [] OTHER                       -> [raised |-> TRUE, positions |-> <<>>]

(***************************************************************************)
(* TradingBot                                                              *)
(*                                                                         *)
(* Amounts of a coin are exact fractions [num, den] with den > 0; balances *)
(* and prices are whole USD; limits given as fractions of the balance are  *)
(* held in percent.                                                        *)
(***************************************************************************)
MaxTicks == 1               \* times the clock advances in one behaviour
MaxCycles == 2              \* iterations of the main loop in one behaviour

MaxPositionSizePct == 2
MaxDrawdownPct == 10
MaxDailyLossPct == 3
MinOrderSizeUsd == 10
MaxOrderSizeUsd == 10000
DeadMansSwitchTimeout == 3600

TradingPairList == << <<"BTC", "USDT">>, <<"ETH", "USDT">> >>
BalanceValues == {0, 400, 8900, 9000, 10000}
Prices == {50000}
SignalValues == {"none", "buy", "sell"}

Rat(n, d) == [num |-> n, den |-> d]
RatLess(a, b) == a.num * b.den < b.num * a.den
RatMin(a, b) == IF RatLess(b, a) THEN b ELSE a
RatMax(a, b) == IF RatLess(a, b) THEN b ELSE a

\* The options as the program defaults them (TradingConfig, and the defaults
\* of the getattr calls of TradingBot).
DefaultConfig ==
    [one_position_per_pair   |-> TRUE,
     enable_dead_mans_switch |-> FALSE,
     max_daily_loss          |-> MaxDailyLossPct,
     min_order_size_usd      |-> MinOrderSizeUsd,
     data_update_interval    |-> "1"]

\* The configurations of the model: the defaults, and the defaults with one
\* option set otherwise.
Configs ==
    {DefaultConfig,
     [DefaultConfig EXCEPT !.one_position_per_pair = FALSE],
     [DefaultConfig EXCEPT !.enable_dead_mans_switch = TRUE],
     [DefaultConfig EXCEPT !.max_daily_loss = 5 * MaxDailyLossPct],
     [DefaultConfig EXCEPT !.min_order_size_usd = 0]}

\* data_update_interval as written in config.yaml: yaml.safe_load makes an int
\* of "1" and a str of "1s", and _update_trading_config stores either.
IntervalNumbers == {"1"}

\* The configurations of a loop whose cycles are followed to their end: the
\* defaults, an interval that is no number, and the dead man's switch.
LoopConfigs ==
    {DefaultConfig,
     [DefaultConfig EXCEPT !.data_update_interval = "1s"],
     [DefaultConfig EXCEPT !.enable_dead_mans_switch = TRUE]}

\* last_exec: the pair and the signal handled, what became of it, the size
\* computed, and the venue's answer to place_order ("none": it was not called).
NoExec == [symbol |-> <<>>, signal |-> "none", price |-> 0, outcome |-> "none",
           size |-> Rat(0, 1), response |-> "none"]

\* _shutdown has not run.
NoShutdown == [liquidated |-> FALSE, saved |-> FALSE]

BotIdle ==
    /\ exch_positions = <<>>
    /\ sent = <<>>
    /\ pc = "start"
    /\ sig_idx = 1
    /\ config = DefaultConfig
    /\ is_running = FALSE
    /\ emergency_stop = FALSE
    /\ now = 0
    /\ last_heartbeat = 0
    /\ account_balance = 0
    /\ initial_balance = 0
    /\ active_positions = <<>>
    /\ stats = [trades_executed |-> 0, current_drawdown |-> Rat(0, 1),
                max_drawdown |-> Rat(0, 1)]
    /\ cycles = 0
    /\ cycle_stale = FALSE
    /\ last_exec = NoExec
    /\ liq_log = <<>>
    /\ shutdown_log = NoShutdown
    /\ balance_fetched = FALSE

\* The time that passes while the bot waits for the venue or sleeps: a second
\* longer than the dead man's switch tolerates.
TickSteps == {DeadMansSwitchTimeout + 1}
AwaitPoints == {"sleep", "pause"}

Tick ==
    /\ pc \in AwaitPoints
    /\ now \div DeadMansSwitchTimeout < MaxTicks
    /\ \E d \in TickSteps : now' = now + d
    /\ UNCHANGED <<exch_positions, sent, pc, sig_idx, config, is_running,
                   emergency_stop, last_heartbeat, account_balance, initial_balance,
                   active_positions, stats, cycles, cycle_stale, last_exec, liq_log,
                   nonceVars, stratVars,
                   clientVars, shutdown_log, balance_fetched, symVars,
                   cycVars, monVars, indVars, callVars>>

\* _update_account_balance: balances.get('USD', 0.0), or the balance kept
\* when get_balance raises.
BalanceAfter(answer, usd) == IF answer = "ok" THEN usd ELSE account_balance

\* start(): the first balance is the initial balance, then the loop runs.
Start ==
    /\ pc = "start"
    /\ \E answer \in Responses, usd \in BalanceValues :
          /\ account_balance' = BalanceAfter(answer, usd)
          /\ initial_balance' = BalanceAfter(answer, usd)
          /\ balance_fetched' = (answer = "ok")
    /\ is_running' = TRUE
    /\ pc' = "loop"
    /\ UNCHANGED <<exch_positions, sent, sig_idx, config, emergency_stop, now,
                   last_heartbeat, active_positions, stats, cycles, cycle_stale,
                   last_exec, liq_log, nonceVars, stratVars,
                   clientVars, shutdown_log, symVars,
                   cycVars, monVars, indVars, callVars>>

\* _signal_handler: is_running = False.  Only the loop test reads
\* is_running, so a signal that arrives anywhere in a cycle is seen as one
\* arriving at one of these places.
InterruptPoints == {"risk", "sleep"}

SignalHandler ==
    /\ pc \in InterruptPoints
    /\ is_running
    /\ is_running' = FALSE
    /\ UNCHANGED <<exch_positions, sent, pc, sig_idx, config, emergency_stop, now,
                   last_heartbeat, account_balance, initial_balance, active_positions,
                   stats, cycles, cycle_stale, last_exec, liq_log, nonceVars, stratVars,
                   clientVars, shutdown_log, balance_fetched, symVars,
                   cycVars, monVars, indVars, callVars>>

\* A loop test that reads is_running only.
LoopContinuesWhileRunning == is_running

\* A loop test that reads emergency_stop only.
LoopContinuesIgnoringStop == ~emergency_stop

\* while self.is_running and not self.emergency_stop
LoopContinues == is_running /\ ~emergency_stop

\* The heartbeat is older than the switch tolerates.
HeartbeatOverdue == now - last_heartbeat > DeadMansSwitchTimeout

\* The test at the top of _main_loop.
LoopTest ==
    /\ pc = "loop"
    /\ IF LoopContinues
       THEN /\ cycles < MaxCycles
            /\ pc' = "heartbeat"
            /\ cycles' = cycles + 1
            /\ cycle_stale' = HeartbeatOverdue
       ELSE /\ pc' = "shutdown"
            /\ UNCHANGED <<cycles, cycle_stale>>
    /\ UNCHANGED <<exch_positions, sent, sig_idx, config, is_running, emergency_stop,
                   now, last_heartbeat, account_balance, initial_balance,
                   active_positions, stats, last_exec, liq_log, nonceVars, stratVars,
                   clientVars, shutdown_log, balance_fetched, symVars,
                   cycVars, monVars, indVars, callVars>>

\* update_heartbeat
UpdateHeartbeat ==
    /\ pc = "heartbeat"
    /\ last_heartbeat' = now
    /\ pc' = "dms"
    /\ UNCHANGED <<exch_positions, sent, sig_idx, config, is_running, emergency_stop,
                   now, account_balance, initial_balance, active_positions, stats,
                   cycles, cycle_stale, last_exec, liq_log, nonceVars, stratVars,
                   clientVars, shutdown_log, balance_fetched, symVars,
                   cycVars, monVars, indVars, callVars>>

\* side = "sell" if position.side == "long" else "buy"
ClosingSide(position_side) == IF position_side = "long" THEN "sell" ELSE "buy"

\* _emergency_close_all_positions: one record per position handled; an
\* exception of get_positions ends the pass before any position.
LiquidationPass(answer, responses) ==
    LET got == GetPositions(answer)
    IN  IF got.raised THEN <<>>
        ELSE [i \in 1..Len(got.positions) |->
                LET position == got.positions[i]
                    result == PlaceOrder(position.symbol, ClosingSide(position.side),
                                         Rat(position.size, 1), "market", "close",
                                         responses[i])
                IN  [symbol  |-> position.symbol,
                     held    |-> position.side,
                     size    |-> position.size,
                     success |-> result.success,
                     request |-> result.request]]

\* The requests of some place_order results that went out, in order.
Transmitted(results) ==
    LET out == SelectSeq(results, LAMBDA r : r.request # NoRequest)
    IN  [i \in 1..Len(out) |-> out[i].request]

ResponseSeqs == [1..Len(exch_positions) -> Responses]

\* A switch that trips in every cycle.
SwitchTripsAlways == TRUE

\* The switch trips when the heartbeat is overdue.
SwitchTrips == config.enable_dead_mans_switch /\ HeartbeatOverdue

\* _check_dead_mans_switch
CheckDeadMansSwitch ==
    /\ pc = "dms"
    /\ IF SwitchTrips
       THEN /\ emergency_stop' = TRUE
            /\ \E answer \in PositionAnswers, responses \in ResponseSeqs :
                  LET pass == LiquidationPass(answer, responses)
                  IN  /\ liq_log' = liq_log \o pass
                      /\ sent' = sent \o Transmitted(pass)
       ELSE UNCHANGED <<emergency_stop, liq_log, sent>>
    /\ pc' = "market"
    /\ UNCHANGED <<exch_positions, sig_idx, config, is_running, now, last_heartbeat,
                   account_balance, initial_balance, active_positions, stats, cycles,
                   cycle_stale, last_exec, nonceVars, stratVars,
                   clientVars, shutdown_log, balance_fetched, symVars,
                   cycVars, monVars, indVars, callVars>>

\* _update_market_data: the candles fetched go to the strategy, whose signals
\* _process_signals takes up next.
FetchMarketData ==
    /\ pc = "market"
    /\ pc' = "signals"
    /\ sig_idx' = 1
    /\ UNCHANGED <<exch_positions, sent, config, is_running, emergency_stop, now,
                   last_heartbeat, account_balance, initial_balance, active_positions,
                   stats, cycles, cycle_stale, last_exec, liq_log, nonceVars, stratVars,
                   clientVars, shutdown_log, balance_fetched, symVars,
                   cycVars, monVars, indVars, callVars>>

\* A test for an existing position that never finds one.
PositionAlreadyExistsNever(symbol) == FALSE

\* self.config.one_position_per_pair and signal.symbol in self.active_positions
PositionAlreadyExists(symbol) ==
    config.one_position_per_pair /\ symbol \in DOMAIN active_positions

\* min(self.account_balance * self.config.max_position_size, max_order_usd)
MaxPositionValue(balance) ==
    RatMin(Rat(balance * MaxPositionSizePct, 100), Rat(MaxOrderSizeUsd, 1))

\* A sizing that stakes the whole balance and never raises.
CalculatePositionSizeWholeBalance(balance, price) ==
    [raised |-> FALSE, size |-> Rat(IF balance <= 0 THEN 0 ELSE balance, price)]

\* _calculate_position_size(price): 0.0 for a balance that is not positive;
\* otherwise max_position_value / price is computed and then `'BTC' in price`
\* (line 323) tests a str against a float, which raises TypeError.
CalculatePositionSize(balance, price) ==
    IF balance <= 0
    THEN [raised |-> FALSE, size |-> Rat(0, 1)]
    ELSE [raised |-> TRUE,
          size   |-> Rat(MaxPositionValue(balance).num,
                         MaxPositionValue(balance).den * price)]

\* A minimum test that lets every size pass.
BelowMinimumOrderNever(position_size, price, min_order_usd) == FALSE

\* position_size * signal.price < min_order_usd
BelowMinimumOrder(position_size, price, min_order_usd) ==
    RatLess(Rat(position_size.num * price, position_size.den), Rat(min_order_usd, 1))

\* A result test that takes every order for placed.
OrderSucceededAlways(order_result) == TRUE

\* if order_result.success
OrderSucceeded(order_result) == order_result.success

\* _execute_signal: what it leaves behind.  outcome is "exists" (skipped, a
\* position exists), "raised" (the sizing raised), "too_small" (skipped, below
\* the minimum), "placed" or "failed" (place_order was called).
ExecuteSignal(symbol, side, price, response) ==
    LET keep == [outcome |-> "none", positions |-> active_positions,
                 trades |-> stats.trades_executed, requests |-> <<>>,
                 size |-> Rat(0, 1)]
        sized == CalculatePositionSize(account_balance, price)
        order_result == PlaceOrder(symbol, side, sized.size, "market", "entry", response)
    IN  IF PositionAlreadyExists(symbol)
        THEN [keep EXCEPT !.outcome = "exists"]
        ELSE IF sized.raised
        THEN [keep EXCEPT !.outcome = "raised"]
        ELSE IF BelowMinimumOrder(sized.size, price, config.min_order_size_usd)
        THEN [keep EXCEPT !.outcome = "too_small", !.size = sized.size]
        ELSE IF OrderSucceeded(order_result)
        THEN [outcome   |-> "placed",
              positions |-> DictSet(active_positions, symbol,
                                    [signal |-> side, price |-> price,
                                     size |-> sized.size]),
              trades    |-> stats.trades_executed + 1,
              requests  |-> Transmitted(<<order_result>>),
              size      |-> sized.size]
        ELSE [outcome   |-> "failed",
              positions |-> active_positions,
              trades    |-> stats.trades_executed,
              requests  |-> Transmitted(<<order_result>>),
              size      |-> sized.size]

\* One pass of the loop of _process_signals: the signal generate_signal gives
\* for the pair (none, or buy or sell at a price) is executed; whatever
\* _execute_signal raises is caught here.
ProcessSignal ==
    /\ pc = "signals"
    /\ \E signal \in SignalValues, price \in Prices, response \in Responses :
          LET symbol == TradingPairList[sig_idx]
              done == IF signal = "none"
                      THEN [outcome |-> "hold", positions |-> active_positions,
                            trades |-> stats.trades_executed, requests |-> <<>>,
                            size |-> Rat(0, 1)]
                      ELSE ExecuteSignal(symbol, signal, price, response)
          IN  /\ active_positions' = done.positions
              /\ stats' = [stats EXCEPT !.trades_executed = done.trades]
              /\ sent' = sent \o done.requests
              /\ last_exec' = [symbol |-> symbol, signal |-> signal, price |-> price,
                               outcome |-> done.outcome, size |-> done.size,
                               response |-> IF done.requests = <<>> THEN "none"
                                            ELSE response]
    /\ IF sig_idx < Len(TradingPairList)
       THEN sig_idx' = sig_idx + 1 /\ pc' = pc
       ELSE sig_idx' = 1 /\ pc' = "balance"
    /\ UNCHANGED <<exch_positions, config, is_running, emergency_stop, now,
                   last_heartbeat, account_balance, initial_balance, cycles,
                   cycle_stale, liq_log, nonceVars, stratVars,
                   clientVars, shutdown_log, balance_fetched, symVars,
                   cycVars, monVars, indVars, callVars>>

\* _update_account_balance, in the cycle
UpdateAccountBalance ==
    /\ pc = "balance"
    /\ \E answer \in Responses, usd \in BalanceValues :
          /\ account_balance' = BalanceAfter(answer, usd)
          /\ balance_fetched' = (answer = "ok")
    /\ pc' = "risk"
    /\ last_exec' = NoExec
    /\ UNCHANGED <<exch_positions, sent, sig_idx, config, is_running, emergency_stop,
                   now, last_heartbeat, initial_balance, active_positions, stats,
                   cycles, cycle_stale, liq_log, nonceVars, stratVars,
                   clientVars, shutdown_log, symVars,
                   cycVars, monVars, indVars, callVars>>

\* A drawdown test that forgets max_drawdown is a fraction of the balance.
DrawdownExceededUnscaled(initial, balance) ==
    (initial - balance) > MaxDrawdownPct * initial

\* current_drawdown > self.config.max_drawdown, where
\* current_drawdown = (initial_balance - account_balance) / initial_balance
DrawdownExceeded(initial, balance) ==
    (initial - balance) * 100 > MaxDrawdownPct * initial

\* A risk check without a daily-loss limit.
DailyLossExceededNever(initial, balance, max_daily_loss) == FALSE

\* daily_loss < -self.config.max_daily_loss, where
\* daily_loss = (account_balance - initial_balance) / initial_balance
DailyLossExceeded(initial, balance, max_daily_loss) ==
    (balance - initial) * 100 < (0 - max_daily_loss) * initial

\* A record of the drawdown that follows the latest drawdown down as well.
MaxDrawdownAfterLatest(max_drawdown, current_drawdown) == current_drawdown

\* if current_drawdown > self.stats.max_drawdown:
\*     self.stats.max_drawdown = current_drawdown
MaxDrawdownAfter(max_drawdown, current_drawdown) ==
    IF RatLess(max_drawdown, current_drawdown) THEN current_drawdown ELSE max_drawdown

\* A risk check that is made whatever the initial balance.
RiskCheckSkippedNever(initial) == FALSE

\* if self.initial_balance <= 0: return
RiskCheckSkipped(initial) == initial <= 0

\* _check_risk_limits
CheckRiskLimits ==
    /\ pc = "risk"
    /\ IF RiskCheckSkipped(initial_balance)
       THEN UNCHANGED <<stats, emergency_stop, liq_log, sent>>
       ELSE LET current_drawdown == Rat(initial_balance - account_balance, initial_balance)
                dd == DrawdownExceeded(initial_balance, account_balance)
                dl == DailyLossExceeded(initial_balance, account_balance,
                                        config.max_daily_loss)
            IN  /\ stats' = [stats EXCEPT
                               !.current_drawdown = current_drawdown,
                               !.max_drawdown =
                                   MaxDrawdownAfter(stats.max_drawdown,
                                                    current_drawdown)]
                /\ emergency_stop' = (emergency_stop \/ dd \/ dl)
                /\ \E a1, a2 \in PositionAnswers, r1, r2 \in ResponseSeqs :
                      LET pass1 == IF dd THEN LiquidationPass(a1, r1) ELSE <<>>
                          pass2 == IF dl THEN LiquidationPass(a2, r2) ELSE <<>>
                      IN  /\ liq_log' = liq_log \o pass1 \o pass2
                          /\ sent' = sent \o Transmitted(pass1) \o Transmitted(pass2)
    /\ pc' = "monitor"
    /\ UNCHANGED <<exch_positions, sig_idx, config, is_running, now, last_heartbeat,
                   account_balance, initial_balance, active_positions, cycles,
                   cycle_stale, last_exec, nonceVars, stratVars,
                   clientVars, shutdown_log, balance_fetched, symVars,
                   cycVars, monVars, indVars, callVars>>

\* _monitor_positions: the unrealized_pnl of a tracked position is refreshed
\* when the venue lists its symbol; nothing else of the state changes, and an
\* exception of get_positions is caught.
MonitorPositions ==
    /\ pc = "monitor"
    /\ pc' = "sleep"
    /\ UNCHANGED <<exch_positions, sent, sig_idx, config, is_running, emergency_stop,
                   now, last_heartbeat, account_balance, initial_balance,
                   active_positions, stats, cycles, cycle_stale, last_exec, liq_log,
                   nonceVars, stratVars,
                   clientVars, shutdown_log, balance_fetched, symVars,
                   cycVars, monVars, indVars, callVars>>

\* asyncio.sleep(delay) raises TypeError for a delay that is no number.
SleepRaises == config.data_update_interval \notin IntervalNumbers

\* _log_statistics and asyncio.sleep(self.config.data_update_interval); what
\* the sleep raises is caught by the except clause of _main_loop.
Sleep ==
    /\ pc = "sleep"
    /\ pc' = IF SleepRaises THEN "pause" ELSE "loop"
    /\ UNCHANGED <<exch_positions, sent, sig_idx, config, is_running, emergency_stop,
                   now, last_heartbeat, account_balance, initial_balance,
                   active_positions, stats, cycles, cycle_stale, last_exec, liq_log,
                   nonceVars, stratVars,
                   clientVars, shutdown_log, balance_fetched, symVars,
                   cycVars, monVars, indVars, callVars>>

\* An except clause that leaves the loop.
AfterPauseLeave == "shutdown"

\* Where _main_loop goes on after its except clause: the while test.
AfterPause == "loop"

\* except Exception: the error is logged and asyncio.sleep(5) awaited, then
\* the loop test is made again.
PauseAfterError ==
    /\ pc = "pause"
    /\ pc' = AfterPause
    /\ UNCHANGED <<exch_positions, sent, sig_idx, config, is_running, emergency_stop,
                   now, last_heartbeat, account_balance, initial_balance,
                   active_positions, stats, cycles, cycle_stale, last_exec, liq_log,
                   nonceVars, stratVars,
                   clientVars, shutdown_log, balance_fetched, symVars,
                   cycVars, monVars, indVars, callVars>>

\* total_return = ((account_balance - initial_balance) / initial_balance) * 100
\* raises ZeroDivisionError for an initial balance of 0.
FinalStatisticsRaise == initial_balance = 0

\* _shutdown: the liquidation pass if emergency_stop, then
\* _log_final_statistics, then save_stats.  An exception of
\* _log_final_statistics leaves _shutdown, _main_loop and start.
Shutdown ==
    /\ pc = "shutdown"
    /\ IF emergency_stop
       THEN \E answer \in PositionAnswers, responses \in ResponseSeqs :
               LET pass == LiquidationPass(answer, responses)
               IN  /\ liq_log' = liq_log \o pass
                   /\ sent' = sent \o Transmitted(pass)
       ELSE UNCHANGED <<liq_log, sent>>
    /\ shutdown_log' = [liquidated |-> emergency_stop,
                        saved |-> ~FinalStatisticsRaise]
    /\ pc' = IF FinalStatisticsRaise THEN "crashed" ELSE "done"
    /\ UNCHANGED <<exch_positions, sig_idx, config, is_running, emergency_stop, now,
                   last_heartbeat, account_balance, initial_balance, active_positions,
                   stats, cycles, cycle_stale, last_exec, nonceVars, stratVars,
                   clientVars, balance_fetched, symVars,
                   cycVars, monVars, indVars, callVars>>

Next ==
    \/ Start
    \/ SignalHandler
    \/ Tick
    \/ LoopTest
    \/ UpdateHeartbeat
    \/ CheckDeadMansSwitch
    \/ FetchMarketData
    \/ ProcessSignal
    \/ UpdateAccountBalance
    \/ CheckRiskLimits
    \/ MonitorPositions
    \/ Sleep
    \/ Shutdown

\* The bot as constructed, for any configuration and any positions the venue
\* may hold.
Init ==
    /\ NonceIdle
    /\ StratIdle
    /\ ClientIdle
    /\ SymIdle /\ CycIdle /\ MonIdle /\ CallIdle /\ IndIdle
    /\ exch_positions \in VenuePositions
    /\ config \in Configs
    /\ sent = <<>>
    /\ pc = "start"
    /\ sig_idx = 1
    /\ is_running = FALSE
    /\ emergency_stop = FALSE
    /\ now = 0
    /\ last_heartbeat = 0
    /\ account_balance = 0
    /\ initial_balance = 0
    /\ active_positions = <<>>
    /\ stats = [trades_executed |-> 0, current_drawdown |-> Rat(0, 1),
                max_drawdown |-> Rat(0, 1)]
    /\ cycles = 0
    /\ cycle_stale = FALSE
    /\ last_exec = NoExec
    /\ liq_log = <<>>
    /\ shutdown_log = NoShutdown
    /\ balance_fetched = FALSE

Spec == Init /\ [][Next]_vars

\* The bot with the except clause of _main_loop.
LoopNext ==
    \/ Start
    \/ SignalHandler
    \/ Tick
    \/ LoopTest
    \/ UpdateHeartbeat
    \/ CheckDeadMansSwitch
    \/ FetchMarketData
    \/ ProcessSignal
    \/ UpdateAccountBalance
    \/ CheckRiskLimits
    \/ MonitorPositions
    \/ Sleep
    \/ PauseAfterError
    \/ Shutdown

\* The bot as constructed on a venue that holds no position.
InitLoop ==
    /\ NonceIdle
    /\ StratIdle
    /\ ClientIdle
    /\ SymIdle /\ CycIdle /\ MonIdle /\ CallIdle /\ IndIdle
    /\ exch_positions = <<>>
    /\ config \in LoopConfigs
    /\ sent = <<>>
    /\ pc = "start"
    /\ sig_idx = 1
    /\ is_running = FALSE
    /\ emergency_stop = FALSE
    /\ now = 0
    /\ last_heartbeat = 0
    /\ account_balance = 0
    /\ initial_balance = 0
    /\ active_positions = <<>>
    /\ stats = [trades_executed |-> 0, current_drawdown |-> Rat(0, 1),
                max_drawdown |-> Rat(0, 1)]
    /\ cycles = 0
    /\ cycle_stale = FALSE
    /\ last_exec = NoExec
    /\ liq_log = <<>>
    /\ shutdown_log = NoShutdown
    /\ balance_fetched = FALSE

SpecLoop == InitLoop /\ [][LoopNext]_vars

(***************************************************************************)
(* HealthCheckServer, started by start() when enable_health_check is set.  *)
(***************************************************************************)
\* The server listens once start() has run, and takes one request at a time.
Listening == pc # "start" /\ http_response = NoResponse

\* No response is on its way: the event loop is free for the control loop.
NoneInFlight == http_response = NoResponse

\* What the handlers leave alone: everything but the response.
HandlerFrame ==
    UNCHANGED <<nonceVars, stratVars, botVars, clientVars, symVars, cycVars, indVars, callVars>>

\* A handler of /health that also calls update_heartbeat.
HealthCheckBeats ==
    /\ Listening
    /\ last_heartbeat' = now
    /\ http_response' =
          [endpoint |-> "health",
           body |-> [status |-> IF is_running /\ ~emergency_stop THEN "healthy"
                                ELSE "unhealthy",
                     timestamp |-> now,
                     uptime |-> now,
                     emergency_stop |-> emergency_stop,
                     last_heartbeat |-> now]]
    /\ UNCHANGED <<exch_positions, sent, pc, sig_idx, config, is_running,
                   emergency_stop, now, account_balance, initial_balance,
                   active_positions, stats, cycles, cycle_stale, last_exec, liq_log,
                   shutdown_log, balance_fetched, nonceVars, stratVars, clientVars,
                   symVars, cycVars, indVars, callVars>>

\* health_check(request); the clock started at construction, when
\* stats.last_reset was taken.
HealthCheck ==
    /\ Listening
    /\ http_response' =
          [endpoint |-> "health",
           body |-> [status |-> IF is_running /\ ~emergency_stop THEN "healthy"
                                ELSE "unhealthy",
                     timestamp |-> now,
                     uptime |-> now,
                     emergency_stop |-> emergency_stop,
                     last_heartbeat |-> last_heartbeat]]
    /\ HandlerFrame

\* get_stats(request); no statement of the program changes winning_trades.
GetStats ==
    /\ Listening
    /\ http_response' =
          [endpoint |-> "stats",
           body |-> [trades_executed |-> stats.trades_executed,
                     win_rate |-> 0,
                     current_balance |-> account_balance,
                     initial_balance |-> initial_balance,
                     pnl |-> account_balance - initial_balance,
                     pnl_percentage |->
                         IF initial_balance > 0
                         THEN Rat((account_balance - initial_balance) * 100,
                                  initial_balance)
                         ELSE Rat(0, 1),
                     max_drawdown |-> Rat(stats.max_drawdown.num * 100,
                                          stats.max_drawdown.den),
                     active_positions |-> Cardinality(DOMAIN active_positions)]]
    /\ HandlerFrame

\* get_positions(request)
GetPositionsHandler ==
    /\ Listening
    /\ http_response' =
          [endpoint |-> "positions",
           body |-> [positions |->
                        {[symbol |-> symbol,
                          size |-> active_positions[symbol].size,
                          unrealized_pnl |-> 0] : symbol \in DOMAIN active_positions}]]
    /\ HandlerFrame

\* aiohttp writes the response the handler returned.
SendResponse ==
    /\ http_response # NoResponse
    /\ http_response' = NoResponse
    /\ HandlerFrame

MonitorNext ==
    \/ NoneInFlight /\ Start
    \/ NoneInFlight /\ SignalHandler
    \/ NoneInFlight /\ Tick
    \/ NoneInFlight /\ LoopTest
    \/ NoneInFlight /\ UpdateHeartbeat
    \/ NoneInFlight /\ CheckDeadMansSwitch
    \/ NoneInFlight /\ FetchMarketData
    \/ NoneInFlight /\ ProcessSignal
    \/ NoneInFlight /\ UpdateAccountBalance
    \/ NoneInFlight /\ CheckRiskLimits
    \/ NoneInFlight /\ MonitorPositions
    \/ NoneInFlight /\ Sleep
    \/ NoneInFlight /\ Shutdown
    \/ HealthCheck
    \/ GetStats
    \/ GetPositionsHandler
    \/ SendResponse

\* The configurations of a monitored bot: the defaults, and no minimum order;
\* the interval is a number in both, so the sleep of a cycle never raises.
MonitorConfigs == {DefaultConfig, [DefaultConfig EXCEPT !.min_order_size_usd = 0]}

\* The bot as constructed on a venue that holds no position.
InitMonitor ==
    /\ NonceIdle
    /\ StratIdle
    /\ ClientIdle
    /\ SymIdle /\ CycIdle /\ MonIdle /\ CallIdle /\ IndIdle
    /\ exch_positions = <<>>
    /\ config \in MonitorConfigs
    /\ sent = <<>>
    /\ pc = "start"
    /\ sig_idx = 1
    /\ is_running = FALSE
    /\ emergency_stop = FALSE
    /\ now = 0
    /\ last_heartbeat = 0
    /\ account_balance = 0
    /\ initial_balance = 0
    /\ active_positions = <<>>
    /\ stats = [trades_executed |-> 0, current_drawdown |-> Rat(0, 1),
                max_drawdown |-> Rat(0, 1)]
    /\ cycles = 0
    /\ cycle_stale = FALSE
    /\ last_exec = NoExec
    /\ liq_log = <<>>
    /\ shutdown_log = NoShutdown
    /\ balance_fetched = FALSE

SpecMonitor == InitMonitor /\ [][MonitorNext]_vars

\* C28: a step in which a monitoring handler answers a request changes none
\* of is_running, emergency_stop, last_heartbeat, the two balances, the
\* statistics and active_positions, wherever the control loop stands.
C28_MonitoringOnlyReads ==
    [][http_response = NoResponse /\ http_response' # NoResponse =>
         /\ is_running' = is_running
         /\ emergency_stop' = emergency_stop
         /\ last_heartbeat' = last_heartbeat
         /\ account_balance' = account_balance
         /\ initial_balance' = initial_balance
         /\ stats' = stats
         /\ active_positions' = active_positions
         /\ pc' = pc]_vars

\* /positions was answered with a tracked position while the loop was between
\* the signals of two pairs.
C28_Witness ==
    /\ http_response.endpoint = "positions"
    /\ http_response.body.positions # {}
    /\ pc = "signals"
    /\ sig_idx = 2
    /\ DOMAIN active_positions # {}


\* The places of a cycle, and the place that follows each when the cycle
\* goes on.
InCycle == {"heartbeat", "dms", "market", "signals", "balance", "risk", "monitor",
            "sleep", "pause"}

CycleSuccessors(place) ==
    CASE place = "heartbeat" -> {"dms"}
      [] place = "dms"       -> {"market"}
      [] place = "market"    -> {"signals"}
      [] place = "signals"   -> {"signals", "balance"}
      [] place = "balance"   -> {"risk"}
      [] place = "risk"      -> {"monitor"}
      [] place = "monitor"   -> {"sleep"}
      [] place = "sleep"     -> {"loop", "pause"}
      [] place = "pause"     -> {"loop"}
      [] OTHER               -> {}

\* C21: an error raised in a cycle is caught: the loop pauses, makes its test
\* again and, unless a stop was requested or emergency_stop is set, starts
\* another cycle; the loop is left only from its test, and only with
\* is_running false or emergency_stop true.
C21_ErrorsDoNotEndTheLoop ==
    [][/\ pc = "sleep" /\ SleepRaises => pc' \in {"sleep", "pause"}
       /\ pc = "pause" => pc' \in {"pause", "loop"}
       /\ pc = "loop" /\ is_running /\ ~emergency_stop => pc' \in {"loop", "heartbeat"}
       /\ pc' = "shutdown" /\ pc # "shutdown" =>
              pc = "loop" /\ (~is_running \/ emergency_stop)
       /\ pc' \in {"done", "crashed"} => pc \in {"shutdown", "done", "crashed"}]_vars

\* A cycle has started after the cycle before it had ended with an error.
C21_Witness ==
    /\ SleepRaises
    /\ cycles >= 2
    /\ pc = "heartbeat"

\* C22: a stop request changes is_running only; the
\* cycle in which it arrived goes on place by place to its end; the loop test
\* that follows starts no cycle and leads to the shutdown.
C22_StopIsCooperative ==
    [][/\ is_running /\ ~is_running' =>
              /\ pc' = pc
              /\ UNCHANGED <<emergency_stop, sent, active_positions, account_balance,
                             initial_balance, stats, cycles, liq_log, shutdown_log,
                             last_heartbeat>>
       /\ ~is_running /\ pc \in InCycle /\ pc' # pc => pc' \in CycleSuccessors(pc)
       /\ ~is_running /\ pc = "loop" /\ pc' # pc =>
              pc' = "shutdown" /\ cycles' = cycles]_vars

\* A stop was requested during the first cycle; the cycle has ended and the
\* loop test has led to the shutdown.
C22_Witness ==
    /\ ~is_running
    /\ ~emergency_stop
    /\ cycles = 1
    /\ pc = "shutdown"

(***************************************************************************)
(* Properties of the controller                                            *)
(***************************************************************************)
\* A step of the loop of _process_signals: it alone leaves pc = "signals".
SignalStep == pc = "signals" /\ last_exec' # last_exec

\* The requests a step transmitted.
NewRequests == SubSeq(sent', Len(sent) + 1, Len(sent'))

\* position i of the venue is closed by request r: a market order on the
\* opposite side for the size of the position.
ClosedBy(r, position) ==
    /\ r.ordertype = "market"
    /\ r.type = (IF position.side = "long" THEN "sell" ELSE "buy")
    /\ r.volume.num = position.size * r.volume.den

C3_DrawdownStopsTheLoop ==
    [][/\ (/\ pc = "risk" /\ pc' = "monitor"
           /\ initial_balance > 0
           /\ (initial_balance - account_balance) * 100 > MaxDrawdownPct * initial_balance)
          => emergency_stop'
       /\ (/\ pc = "risk" /\ pc' = "monitor"
           /\ initial_balance = 10000 /\ account_balance = 8900)
          => /\ stats'.current_drawdown.num * 100 = 11 * stats'.current_drawdown.den
             /\ emergency_stop'
       /\ emergency_stop => cycles' = cycles]_vars

\* The loop has ended on the stop, though no stop was requested, after the
\* risk check saw 8900 of 10000 with a daily-loss limit that 0.11 stays under.
C3_Witness ==
    /\ pc = "shutdown"
    /\ emergency_stop
    /\ is_running
    /\ initial_balance = 10000
    /\ account_balance = 8900
    /\ stats.current_drawdown = Rat(1100, 10000)
    /\ config.max_daily_loss > 11

\* C4: emergency liquidation transmits, for every position get_positions
\* returned, one market order on the opposite side for the size of the
\* position.
C4_LiquidationOrdersSent ==
    \A i \in 1..Len(liq_log) :
        /\ liq_log[i].request # NoRequest
        /\ ClosedBy(liq_log[i].request,
                  [side |-> liq_log[i].held, size |-> liq_log[i].size])

\* A liquidation pass went through both positions of the venue, place_order
\* failed for each of them, and nothing was transmitted.
C4_Witness ==
    /\ Len(liq_log) >= 2
    /\ liq_log[1].symbol # liq_log[2].symbol
    /\ ~liq_log[1].success /\ ~liq_log[2].success
    /\ sent = <<>>

\* The minimum lot of a symbol: 0.0001 for BTC, 0.005 for ETH (bot.py 323-326).
MinimumLot(symbol) ==
    IF "BTC" \in {symbol[i] : i \in 1..Len(symbol)} THEN Rat(1, 10000)
    ELSE IF "ETH" \in {symbol[i] : i \in 1..Len(symbol)} THEN Rat(5, 1000)
    ELSE Rat(0, 1)

\* min(account_balance * max_position_size, max_order_size_usd) / price,
\* raised to the minimum lot of the symbol.
IntendedSize(symbol, balance, price) ==
    RatMax(Rat(MaxPositionValue(balance).num, MaxPositionValue(balance).den * price),
           MinimumLot(symbol))

\* C5: for a non-hold signal on a symbol without a tracked position, with
\* account_balance > 0 and a notional of at least min_order_size_usd,
\* _execute_signal submits exactly one order, with the symbol and the side of
\* the signal and the amount min(account_balance * max_position_size,
\* max_order_size_usd) / price raised to the minimum lot of the symbol.
C5_EntryOrderSubmitted ==
    [][(/\ SignalStep
        /\ last_exec'.signal # "none"
        /\ last_exec'.symbol \notin DOMAIN active_positions
        /\ account_balance > 0
        /\ ~BelowMinimumOrder(IntendedSize(last_exec'.symbol, account_balance,
                                           last_exec'.price),
                              last_exec'.price, config.min_order_size_usd))
         => /\ Len(NewRequests) = 1
            /\ NewRequests[1].pair = ConvertSymbolToKraken(last_exec'.symbol).pair
            /\ NewRequests[1].type = last_exec'.signal
            /\ ~RatLess(NewRequests[1].volume,
                        IntendedSize(last_exec'.symbol, account_balance, last_exec'.price))
            /\ ~RatLess(IntendedSize(last_exec'.symbol, account_balance, last_exec'.price),
                        NewRequests[1].volume)]_vars

\* A buy signal for BTC/USDT at 50000 came with 10000 USD on the account and
\* no position tracked, the sizing raised, and nothing was transmitted.
C5_Witness ==
    /\ last_exec.signal = "buy"
    /\ last_exec.symbol = <<"BTC", "USDT">>
    /\ last_exec.outcome = "raised"
    /\ account_balance = 10000
    /\ active_positions = <<>>
    /\ sent = <<>>

\* place_order was called in this step and the venue answered it with r.
PlaceOrderAnswered(r) == Len(NewRequests) = 1 /\ last_exec'.response = r

\* C6: after an execution attempt active_positions gains an entry for the
\* symbol of the signal and trades_executed grows by exactly 1 if and only if
\* place_order reported success; when it reports failure active_positions and
\* the statistics are unchanged and the order is not submitted again.
C6_PositionRecordedIffSuccess ==
    [][(SignalStep /\ last_exec'.signal # "none")
         => /\ PlaceOrderAnswered("ok")
               => /\ last_exec'.symbol \in DOMAIN active_positions'
                  /\ active_positions'[last_exec'.symbol].signal = last_exec'.signal
                  /\ active_positions'[last_exec'.symbol].size = NewRequests[1].volume
                  /\ \A symbol \in DOMAIN active_positions \ {last_exec'.symbol} :
                        /\ symbol \in DOMAIN active_positions'
                        /\ active_positions'[symbol] = active_positions[symbol]
                  /\ stats'.trades_executed = stats.trades_executed + 1
            /\ ~PlaceOrderAnswered("ok")
               => /\ active_positions' = active_positions
                  /\ stats' = stats
                  /\ Len(NewRequests) <= 1]_vars

\* Two attempts of one cycle: the order of the first pair went out and failed,
\* leaving no position; the order of the second was placed, and is tracked.
C6_Witness ==
    /\ Len(sent) = 2
    /\ cycles = 1
    /\ last_exec.response = "ok"
    /\ DOMAIN active_positions = {last_exec.symbol}
    /\ sent[1].pair # sent[2].pair
    /\ stats.trades_executed = 1

\* C7: with one_position_per_pair enabled no entry order is ever submitted
\* for a symbol that has an entry in active_positions.
C7_OnePositionPerPair ==
    [][(/\ config.one_position_per_pair
        /\ pc = "signals"
        /\ TradingPairList[sig_idx] \in DOMAIN active_positions)
         => sent' = sent]_vars

\* A signal came for a symbol whose position a former cycle had opened, and
\* it was skipped.
C7_Witness ==
    /\ config.one_position_per_pair
    /\ cycles = 2
    /\ last_exec.signal # "none"
    /\ last_exec.symbol \in DOMAIN active_positions
    /\ last_exec.response = "none"
    /\ Len(sent) = 1

\* C8: no entry order is submitted whose notional (size times signal price) is
\* below the configured minimum; a signal whose computed size gives such a
\* notional is skipped, with no order and no change of positions or statistics.
C8_MinimumNotional ==
    [][(SignalStep /\ last_exec'.signal # "none")
         => LET price == last_exec'.price
                size  == IF account_balance <= 0 THEN Rat(0, 1)
                         ELSE IntendedSize(last_exec'.symbol, account_balance, price)
            IN  /\ \A i \in 1..Len(NewRequests) :
                      NewRequests[i].volume.num * price
                          >= config.min_order_size_usd * NewRequests[i].volume.den
                /\ size.num * price < config.min_order_size_usd * size.den
                   => /\ sent' = sent
                      /\ active_positions' = active_positions
                      /\ stats' = stats]_vars

\* A signal was sized, its notional came out below the default minimum of 10
\* USD, and it was skipped.
C8_Witness ==
    /\ last_exec.signal # "none"
    /\ last_exec.outcome = "too_small"
    /\ config.min_order_size_usd = MinOrderSizeUsd
    /\ sent = <<>>
    /\ active_positions = <<>>

C24_RunningAfterBalanceSnapshot ==
    [][~is_running /\ is_running' =>
          balance_fetched' /\ initial_balance' = account_balance']_vars

\* The bot runs on an initial balance the exchange has returned.
C24_Witness ==
    /\ is_running
    /\ pc = "loop"
    /\ cycles = 0
    /\ balance_fetched
    /\ initial_balance = 10000

\* C20: once the main loop has been left, for a stop request or for an
\* emergency stop, the bot terminates only after _shutdown has run to its
\* end: with the liquidation pass exactly if emergency_stop is set, and with
\* save_stats called.
C20_ShutdownCompletes ==
    pc \in {"done", "crashed"} =>
        /\ pc = "done"
        /\ shutdown_log.saved
        /\ shutdown_log.liquidated <=> emergency_stop

\* Both kinds of exit with a completed shutdown: here one after an emergency
\* stop, with the liquidation pass and the final statistics saved.
C20_Witness ==
    /\ pc = "done"
    /\ emergency_stop
    /\ shutdown_log.liquidated
    /\ shutdown_log.saved

\* The strategy as constructed, and a young venue.
InitStrategy ==
    /\ NonceIdle
    /\ BotIdle
    /\ ClientIdle
    /\ SymIdle /\ CycIdle /\ MonIdle /\ CallIdle /\ IndIdle
    /\ market_data = <<>>
    /\ counters = <<>>
    /\ generated = NoCall
    /\ empty_fed = {}
    /\ ohlc = [symbol \in TradingPairs |-> <<>>]
    /\ candles_left = MaxCandles

SpecStrategy == InitStrategy /\ [][StrategyNext]_vars

\* Row i comes after some buy or sell candle of the scan (itself included).
Started(rows, i) == \E j \in 1..i : rows[j].buy \/ rows[j].sell

\* C9: at every candle of every counter scan countBuy and countSell are
\* non-negative and exactly one of them is nonzero, except that both are zero
\* before the first buy or sell candle of the scan.
C9_ExactlyOneCounterNonzero ==
    \A symbol \in DOMAIN market_data :
        \A i \in 1..Len(market_data[symbol]) :
            LET r == market_data[symbol][i]
            IN  /\ r.countBuy >= 0
                /\ r.countSell >= 0
                /\ IF Started(market_data[symbol], i)
                   THEN (r.countBuy = 0) # (r.countSell = 0)
                   ELSE r.countBuy = 0 /\ r.countSell = 0

\* A scan that starts neutral, then counts a buy candle, then a sell candle.
C9_Witness ==
    \E symbol \in DOMAIN market_data :
        LET rows == market_data[symbol]
        IN  /\ Len(rows) >= 4
            /\ ~rows[1].buy /\ ~rows[1].sell
            /\ rows[2].buy /\ rows[2].countBuy = 1 /\ rows[2].countSell = 0
            /\ rows[4].sell /\ rows[4].countSell = 1 /\ rows[4].countBuy = 0

\* C10: on no candle of any candle sequence are buysignal and sellsignal both
\* true.
C10_SignalsExclusive ==
    \A symbol \in DOMAIN market_data :
        \A i \in 1..Len(market_data[symbol]) :
            ~(market_data[symbol][i].buysignal /\ market_data[symbol][i].sellsignal)

\* One scan raised a buysignal on one candle and a sellsignal on a later one.
C10_Witness ==
    \E symbol \in DOMAIN market_data :
        \E i, j \in 1..Len(market_data[symbol]) :
            /\ i < j
            /\ market_data[symbol][i].buysignal /\ ~market_data[symbol][i].sellsignal
            /\ market_data[symbol][j].sellsignal /\ ~market_data[symbol][j].buysignal

\* C11: in every run of consecutive buy candles of length at least 2 the
\* buysignal is true on exactly one candle: the first of the run, where buy
\* becomes true after a sell candle or a neutral one.
C11_BuySignalOncePerRun ==
    \A symbol \in DOMAIN market_data :
        LET rows == market_data[symbol]
        IN  \A i \in 2..Len(rows) :
                /\ (rows[i].buy /\ ~rows[i - 1].buy /\ i < Len(rows) /\ rows[i + 1].buy)
                       => rows[i].buysignal
                /\ (rows[i].buy /\ rows[i - 1].buy) => ~rows[i].buysignal

\* A buy candle, a neutral candle, then a run of two buy candles on neither
\* of which the buysignal is raised.
C11_Witness ==
    \E symbol \in DOMAIN market_data :
        LET rows == market_data[symbol]
        IN  \E i \in 3..(Len(rows) - 1) :
                /\ rows[i - 2].buy
                /\ ~rows[i - 1].buy /\ ~rows[i - 1].sell
                /\ rows[i].buy /\ rows[i + 1].buy
                /\ ~rows[i].buysignal /\ ~rows[i + 1].buysignal
                /\ rows[i].countBuy = 2

\* C12: the counters are carried across the calls of update_market_data for
\* a symbol: the scan of an update starts from the values the previous update
\* stored for the symbol, so its first row counts on from them.
C12_CountersCarried ==
    [][\A symbol \in TradingPairs :
          (/\ symbol \in DOMAIN counters
           /\ symbol \in DOMAIN market_data
           /\ market_data'[symbol] # market_data[symbol])
             => LET first == market_data'[symbol][1]
                    c == CounterStep(first.buy, first.sell,
                                     counters[symbol].countBuy,
                                     counters[symbol].countSell)
                IN  /\ first.countBuy = c.countBuy
                    /\ first.countSell = c.countSell]_vars

\* An update stored countBuy = 2 for a symbol whose frame began at 0 and 0,
\* as did the frame of the update before it, which had stored countBuy = 1.
C12_Witness ==
    \E symbol \in DOMAIN counters :
        /\ counters[symbol].countBuy = 2
        /\ Len(market_data[symbol]) = 3
        /\ market_data[symbol][1].countBuy = 0
        /\ market_data[symbol][1].countSell = 0
        /\ market_data[symbol][2].countBuy = 1

\* A flat market: one candle short of the history generate_signal asks for.
WarmUp == [i \in 1..(MinHistory - 1) |-> 14]

\* The strategy as constructed, and a venue that traded every pair flat so far.
InitSignal ==
    /\ NonceIdle
    /\ BotIdle
    /\ ClientIdle
    /\ SymIdle /\ CycIdle /\ MonIdle /\ CallIdle /\ IndIdle
    /\ market_data = <<>>
    /\ counters = <<>>
    /\ generated = NoCall
    /\ empty_fed = {}
    /\ ohlc = [symbol \in TradingPairs |-> WarmUp]
    /\ candles_left = MaxWarmCandles

SpecSignal == InitSignal /\ [][SignalNext]_vars

\* The batch last passed to update_market_data for a symbol: none at all, an
\* empty one, or the candles the venue held then, as many as the stored frame
\* has rows.
LastBatch(symbol) ==
    IF symbol \in empty_fed \/ symbol \notin DOMAIN market_data THEN <<>>
    ELSE SubSeq(ohlc[symbol], 1, Len(market_data[symbol]))

\* The signal an engine fresh from its constructor derives from a batch.
FreshSignal(batch) ==
    LET rows == CounterScan(CalculateIndicators(LastRows(batch, MaxDataPoints)),
                            1, 0, 0, <<>>)
    IN  IF Len(rows) < SlowEmaPeriod \/ Len(rows) < StochRsiLength + StochLength
        THEN NoSignal
        ELSE IF rows[Len(rows)].buysignal
        THEN [signal |-> "buy", signal_type |-> "bull", price |-> rows[Len(rows)].close]
        ELSE IF rows[Len(rows)].sellsignal
        THEN [signal |-> "sell", signal_type |-> "bear", price |-> rows[Len(rows)].close]
        ELSE NoSignal

(***************************************************************************)
(* _calculate_rsi and _calculate_stochastic_rsi                            *)
(***************************************************************************)
MaxStochCandles == 4    \* candles closed after the history a frame starts with

StochKSmooth == 3
StochDSmooth == 3

\* The values of column[lo..hi], lo <= hi
Window(column, lo, hi) == {column[j] : j \in lo..hi}

RECURSIVE SumRange(_, _, _)
SumRange(column, lo, hi) ==
    IF lo > hi THEN Num(0) ELSE FAdd(column[lo], SumRange(column, lo + 1, hi))

\* rolling(window=n): a row has a value when n rows end at it and none of
\* them is NaN.
Observed(column, i, n) ==
    i >= n /\ \A j \in (i - n + 1)..i : column[j].kind # "nan"

\* column.rolling(window=n).mean()
RollingMean(column, n) ==
    [i \in DOMAIN column |->
        IF Observed(column, i, n)
        THEN FDiv(SumRange(column, i - n + 1, i), Num(n))
        ELSE NaN]

\* column.rolling(window=n).min()
RollingMin(column, n) ==
    [i \in DOMAIN column |->
        IF Observed(column, i, n)
        THEN CHOOSE x \in Window(column, i - n + 1, i) :
                 \A y \in Window(column, i - n + 1, i) : FLe(x, y)
        ELSE NaN]

\* column.rolling(window=n).max()
RollingMax(column, n) ==
    [i \in DOMAIN column |->
        IF Observed(column, i, n)
        THEN CHOOSE x \in Window(column, i - n + 1, i) :
                 \A y \in Window(column, i - n + 1, i) : FGe(x, y)
        ELSE NaN]

\* prices.diff()
Diff(prices) ==
    [i \in DOMAIN prices |-> IF i = 1 THEN NaN ELSE FSub(prices[i], prices[i - 1])]

\* _calculate_rsi(prices, period)
CalculateRsi(prices, period) ==
    LET delta == Diff(prices)
        gain == RollingMean([i \in DOMAIN delta |->
                               IF FGt(delta[i], Num(0)) THEN delta[i] ELSE Num(0)],
                            period)
        loss == RollingMean([i \in DOMAIN delta |->
                               FNeg(IF FLt(delta[i], Num(0)) THEN delta[i] ELSE Num(0))],
                            period)
        rs == [i \in DOMAIN delta |-> FDiv(gain[i], loss[i])]
    IN  [i \in DOMAIN delta |->
            FSub(Num(100), FDiv(Num(100), FAdd(Num(1), rs[i])))]

\* The denominator as computed, a zero left in place.
DenominatorKept(x) == x

\* denominator.replace(0, 1)
Denominator(x) == IF FEq(x, Num(0)) THEN Num(1) ELSE x

\* _calculate_stochastic_rsi(rsi, stoch_length, k_smooth, d_smooth)
CalculateStochasticRsi(rsi, stoch_length, k_smooth, d_smooth) ==
    LET rsi_min == RollingMin(rsi, stoch_length)
        rsi_max == RollingMax(rsi, stoch_length)
        stoch_rsi == [i \in DOMAIN rsi |->
                        FDiv(FMul(Num(100), FSub(rsi[i], rsi_min[i])),
                             Denominator(FSub(rsi_max[i], rsi_min[i])))]
        stoch_k == RollingMean(stoch_rsi, k_smooth)
        stoch_d == RollingMean(stoch_k, d_smooth)
    IN  [k |-> stoch_k, d |-> stoch_d]

\* The rsi, stoch_rsi_k and stoch_rsi_d columns _calculate_indicators adds.
StochColumns(closes) ==
    LET rsi == CalculateRsi([i \in DOMAIN closes |-> Num(closes[i])], StochRsiLength)
        stoch == CalculateStochasticRsi(rsi, StochLength, StochKSmooth, StochDSmooth)
    IN  [rsi |-> rsi, k |-> stoch.k, d |-> stoch.d]

NoColumns == [rsi |-> <<>>, k |-> <<>>, d |-> <<>>]

\* The first candle at which stoch_rsi_d can have a value.
FirstStochRow == StochRsiLength + StochLength + StochKSmooth + StochDSmooth - 3

\* Histories one candle short of it: a market that rose with every candle, a
\* market that did not move, and a market that went up and down.
PriceHistoryRising == [i \in 1..(FirstStochRow - 1) |-> 50 + i]

PriceHistoryFlat == [i \in 1..(FirstStochRow - 1) |-> 50]

PriceHistoryWave == [i \in 1..(FirstStochRow - 1) |-> 50 + ((i * i) % 7)]

PriceHistories == {PriceHistoryRising, PriceHistoryFlat, PriceHistoryWave}

\* The change of the close from one candle to the next.
PriceMoves == {-2, 0, 3}

\* The venue closes one more candle.
ClosePrice ==
    /\ Len(price_column) < FirstStochRow - 1 + MaxStochCandles
    /\ \E move \in PriceMoves :
         price_column' = Append(price_column, price_column[Len(price_column)] + move)
    /\ UNCHANGED <<stoch_columns, k_column, alert, nonceVars, stratVars, botVars,
                   clientVars, symVars, cycVars, monVars, callVars>>

\* _calculate_indicators on the frame of the candles held.
CalculateStochColumns ==
    /\ stoch_columns # StochColumns(price_column)
    /\ stoch_columns' = StochColumns(price_column)
    /\ UNCHANGED <<price_column, k_column, alert, nonceVars, stratVars, botVars,
                   clientVars, symVars, cycVars, monVars, callVars>>

StochNext ==
    \/ ClosePrice
    \/ CalculateStochColumns

InitStoch ==
    /\ NonceIdle /\ StratIdle /\ BotIdle /\ ClientIdle
    /\ SymIdle /\ CycIdle /\ MonIdle /\ CallIdle
    /\ price_column \in PriceHistories
    /\ stoch_columns = NoColumns
    /\ k_column = <<>>
    /\ alert = NoCheck

SpecStoch == InitStoch /\ [][StochNext]_vars

\* The rows of the stochastic window that ends at row i all have an RSI.
StochWindowFull(i) == Observed(stoch_columns.rsi, i, StochLength)

\* The RSI has one and the same value in the whole window that ends at row i.
StochWindowLevel(i) ==
    /\ StochWindowFull(i)
    /\ \A j \in (i - StochLength + 1)..i : stoch_columns.rsi[j] = stoch_columns.rsi[i]

\* C27: at every candle %K and %D are either undefined (NaN) or a number in
\* [0,100], never an infinity; %K is a number wherever the last k_smooth
\* stochastic windows are full, and %D wherever the last k_smooth + d_smooth
\* - 1 are, windows whose RSI maximum equals the RSI minimum included.
C27_StochasticInRange ==
    \A i \in DOMAIN stoch_columns.k :
        /\ \A x \in {stoch_columns.k[i], stoch_columns.d[i]} :
              x.kind # "nan" =>
                  /\ x.kind = "num"
                  /\ 0 <= x.n
                  /\ x.n <= 100 * x.d
        /\ (i >= StochKSmooth
                /\ \A j \in (i - StochKSmooth + 1)..i : StochWindowFull(j))
              => stoch_columns.k[i].kind = "num"
        /\ (i >= StochKSmooth + StochDSmooth - 1
                /\ \A j \in (i - StochKSmooth - StochDSmooth + 2)..i : StochWindowFull(j))
              => stoch_columns.d[i].kind = "num"

\* A frame with a candle whose %K and %D come from windows in which the RSI
\* did not move, and a later candle whose %K and %D lie strictly between 0
\* and 100.
C27_Witness ==
    /\ \E i \in DOMAIN stoch_columns.k :
          /\ i >= StochKSmooth + StochDSmooth - 1
          /\ \A j \in (i - StochKSmooth - StochDSmooth + 2)..i : StochWindowLevel(j)
          /\ stoch_columns.k[i] = Num(0)
          /\ stoch_columns.d[i] = Num(0)
    /\ \E i \in DOMAIN stoch_columns.k :
          /\ FLt(Num(0), stoch_columns.k[i]) /\ FLt(stoch_columns.k[i], Num(100))
          /\ FLt(Num(0), stoch_columns.d[i]) /\ FLt(stoch_columns.d[i], Num(100))

(***************************************************************************)
(* check_stoch_rsi_alerts                                                  *)
(***************************************************************************)
MaxAlertRows == 4       \* candles of a frame at which %K may have a value

UpperBand == 80
MiddleBand == 50
LowerBand == 20

\* The first candle at which stoch_rsi_k can have a value.
FirstKRow == StochRsiLength + StochLength + StochKSmooth - 2

\* The values %K takes in the model: inside each band and on each band.
KValues == {Num(5), Num(LowerBand), Num(MiddleBand), Num(UpperBand), Num(95)}

\* The stochastic columns of a stored frame whose %K column is given:
\* stoch_rsi_d, and the two crossover columns of _calculate_indicators.
AlertFrame(column) ==
    LET d == RollingMean(column, StochDSmooth)
    IN  [i \in DOMAIN column |->
            [stoch_rsi_k |-> column[i],
             stoch_rsi_d |-> d[i],
             stoch_crossover_up |->
                 /\ FGt(column[i], d[i])
                 /\ i > 1
                 /\ FLe(column[i - 1], d[i - 1]),
             stoch_crossover_down |->
                 /\ FLt(column[i], d[i])
                 /\ i > 1
                 /\ FGe(column[i - 1], d[i - 1])]]

\* StochRSIAlert(alert_type=..., stoch_k=..., stoch_d=...)
StochRSIAlert(alert_type, latest) ==
    [alert_type |-> alert_type, stoch_k |-> latest.stoch_rsi_k,
     stoch_d |-> latest.stoch_rsi_d]

\* The tests in another order: the oversold and overbought crossovers before
\* the middle band crossovers.
CheckStochRsiAlertsExtremesFirst(df) ==
    IF df = <<>> THEN NoAlert
    ELSE IF Len(df) < 2 THEN NoAlert
    ELSE LET latest == df[Len(df)]
             stoch_k == latest.stoch_rsi_k
             stoch_d == latest.stoch_rsi_d
             prev_k == df[Len(df) - 1].stoch_rsi_k
         IN  IF latest.stoch_crossover_up
                /\ (FLt(stoch_k, Num(LowerBand)) \/ FLt(stoch_d, Num(LowerBand)))
             THEN StochRSIAlert("crossup_os", latest)
             ELSE IF latest.stoch_crossover_down
                     /\ (FGt(stoch_k, Num(UpperBand)) \/ FGt(stoch_d, Num(UpperBand)))
             THEN StochRSIAlert("crossdown_ob", latest)
             ELSE IF latest.stoch_crossover_up
                     /\ (FLt(stoch_k, Num(MiddleBand)) \/ FLt(stoch_d, Num(MiddleBand)))
             THEN StochRSIAlert("crossup_mid", latest)
             ELSE IF latest.stoch_crossover_down
                     /\ (FGt(stoch_k, Num(MiddleBand)) \/ FGt(stoch_d, Num(MiddleBand)))
             THEN StochRSIAlert("crossdown_mid", latest)
             ELSE IF FGe(prev_k, Num(UpperBand)) /\ FLt(stoch_k, Num(UpperBand))
             THEN StochRSIAlert("below_upper_band", latest)
             ELSE IF FLe(prev_k, Num(LowerBand)) /\ FGt(stoch_k, Num(LowerBand))
             THEN StochRSIAlert("above_lower_band", latest)
             ELSE NoAlert

\* The tests in another order: the two band crossings before the crossovers.
CheckStochRsiAlertsBandsFirst(df) ==
    IF df = <<>> THEN NoAlert
    ELSE IF Len(df) < 2 THEN NoAlert
    ELSE LET latest == df[Len(df)]
             stoch_k == latest.stoch_rsi_k
             stoch_d == latest.stoch_rsi_d
             prev_k == df[Len(df) - 1].stoch_rsi_k
         IN  IF FGe(prev_k, Num(UpperBand)) /\ FLt(stoch_k, Num(UpperBand))
             THEN StochRSIAlert("below_upper_band", latest)
             ELSE IF FLe(prev_k, Num(LowerBand)) /\ FGt(stoch_k, Num(LowerBand))
             THEN StochRSIAlert("above_lower_band", latest)
             ELSE IF latest.stoch_crossover_up
                     /\ (FLt(stoch_k, Num(MiddleBand)) \/ FLt(stoch_d, Num(MiddleBand)))
             THEN StochRSIAlert("crossup_mid", latest)
             ELSE IF latest.stoch_crossover_down
                     /\ (FGt(stoch_k, Num(MiddleBand)) \/ FGt(stoch_d, Num(MiddleBand)))
             THEN StochRSIAlert("crossdown_mid", latest)
             ELSE IF latest.stoch_crossover_up
                     /\ (FLt(stoch_k, Num(LowerBand)) \/ FLt(stoch_d, Num(LowerBand)))
             THEN StochRSIAlert("crossup_os", latest)
             ELSE IF latest.stoch_crossover_down
                     /\ (FGt(stoch_k, Num(UpperBand)) \/ FGt(stoch_d, Num(UpperBand)))
             THEN StochRSIAlert("crossdown_ob", latest)
             ELSE NoAlert

\* check_stoch_rsi_alerts(symbol) on the frame stored for the symbol; no
\* frame is stored when df is <<>>.
CheckStochRsiAlerts(df) ==
    IF df = <<>> THEN NoAlert
    ELSE IF Len(df) < 2 THEN NoAlert
    ELSE LET latest == df[Len(df)]
             stoch_k == latest.stoch_rsi_k
             stoch_d == latest.stoch_rsi_d
             prev_k == df[Len(df) - 1].stoch_rsi_k
         IN  IF latest.stoch_crossover_up
                /\ (FLt(stoch_k, Num(MiddleBand)) \/ FLt(stoch_d, Num(MiddleBand)))
             THEN StochRSIAlert("crossup_mid", latest)
             ELSE IF latest.stoch_crossover_down
                     /\ (FGt(stoch_k, Num(MiddleBand)) \/ FGt(stoch_d, Num(MiddleBand)))
             THEN StochRSIAlert("crossdown_mid", latest)
             ELSE IF latest.stoch_crossover_up
                     /\ (FLt(stoch_k, Num(LowerBand)) \/ FLt(stoch_d, Num(LowerBand)))
             THEN StochRSIAlert("crossup_os", latest)
             ELSE IF latest.stoch_crossover_down
                     /\ (FGt(stoch_k, Num(UpperBand)) \/ FGt(stoch_d, Num(UpperBand)))
             THEN StochRSIAlert("crossdown_ob", latest)
             ELSE IF FGe(prev_k, Num(UpperBand)) /\ FLt(stoch_k, Num(UpperBand))
             THEN StochRSIAlert("below_upper_band", latest)
             ELSE IF FLe(prev_k, Num(LowerBand)) /\ FGt(stoch_k, Num(LowerBand))
             THEN StochRSIAlert("above_lower_band", latest)
             ELSE NoAlert

\* update_market_data stores a frame with one more candle: %K has no value
\* before its first row, and none where the market did not move.
AppendStochK ==
    /\ Len(k_column) < FirstKRow - 1 + MaxAlertRows
    /\ \E stoch_k \in KValues \cup {NaN} :
         /\ Len(k_column) < FirstKRow - 1 => stoch_k = NaN
         /\ k_column' = Append(k_column, stoch_k)
    /\ alert' = NoCheck
    /\ UNCHANGED <<price_column, stoch_columns, nonceVars, stratVars, botVars,
                   clientVars, symVars, cycVars, monVars, callVars>>

\* stoch_alert = self.strategy.check_stoch_rsi_alerts(symbol)
CallCheckStochRsiAlerts ==
    /\ ~alert.called
    /\ alert' = [called |-> TRUE, result |-> CheckStochRsiAlerts(AlertFrame(k_column))]
    /\ UNCHANGED <<price_column, stoch_columns, k_column, nonceVars, stratVars,
                   botVars, clientVars, symVars, cycVars, monVars, callVars>>

AlertNext ==
    \/ AppendStochK
    \/ CallCheckStochRsiAlerts

InitAlert ==
    /\ NonceIdle /\ StratIdle /\ BotIdle /\ ClientIdle
    /\ SymIdle /\ CycIdle /\ MonIdle /\ CallIdle /\ IndIdle

SpecAlert == InitAlert /\ [][AlertNext]_vars

\* The six tests on the latest two candles of a frame, in the order middle
\* band crossovers, oversold / overbought crossovers, %K below the upper
\* band, %K above the lower band.
AlertTests(df) ==
    LET latest == df[Len(df)]
        k == latest.stoch_rsi_k
        d == latest.stoch_rsi_d
        prev_k == df[Len(df) - 1].stoch_rsi_k
    IN  << [alert_type |-> "crossup_mid",
            matches |-> latest.stoch_crossover_up
                        /\ (FLt(k, Num(MiddleBand)) \/ FLt(d, Num(MiddleBand)))],
           [alert_type |-> "crossdown_mid",
            matches |-> latest.stoch_crossover_down
                        /\ (FGt(k, Num(MiddleBand)) \/ FGt(d, Num(MiddleBand)))],
           [alert_type |-> "crossup_os",
            matches |-> latest.stoch_crossover_up
                        /\ (FLt(k, Num(LowerBand)) \/ FLt(d, Num(LowerBand)))],
           [alert_type |-> "crossdown_ob",
            matches |-> latest.stoch_crossover_down
                        /\ (FGt(k, Num(UpperBand)) \/ FGt(d, Num(UpperBand)))],
           [alert_type |-> "below_upper_band",
            matches |-> FGe(prev_k, Num(UpperBand)) /\ FLt(k, Num(UpperBand))],
           [alert_type |-> "above_lower_band",
            matches |-> FLe(prev_k, Num(LowerBand)) /\ FGt(k, Num(LowerBand))] >>

\* The places of the tests that match on the frame stored.
AlertMatches ==
    IF Len(k_column) < 2 THEN {}
    ELSE {i \in 1..6 : AlertTests(AlertFrame(k_column))[i].matches}

\* C30: a call of check_stoch_rsi_alerts returns no alert when no test
\* matches, and otherwise the one alert of the first test that matches, with
\* the %K and %D of the latest candle.
C30_FirstMatchingAlert ==
    alert.called =>
        IF AlertMatches = {}
        THEN alert.result = NoAlert
        ELSE LET first == CHOOSE i \in AlertMatches : \A j \in AlertMatches : i <= j
                 df == AlertFrame(k_column)
             IN  /\ alert.result.alert_type = AlertTests(df)[first].alert_type
                 /\ alert.result.stoch_k = df[Len(df)].stoch_rsi_k
                 /\ alert.result.stoch_d = df[Len(df)].stoch_rsi_d

\* A call on a frame on which %K fell below %D above the middle band and
\* below the upper band with the same candle: the crossover alert is returned.
C30_Witness ==
    /\ alert.called
    /\ {2, 5} \subseteq AlertMatches
    /\ alert.result.alert_type = "crossdown_mid"

(***************************************************************************)
(* One pass of _update_market_data and _process_signals over the pairs.    *)
(***************************************************************************)
\* What the request of get_historical_data met: candles, or an exception that
\* get_historical_data caught.
FetchOutcomes == {"candles", "failed"}

\* An except clause placed around the whole for loop: the pass over the pairs
\* ends at the first pair that fails.
AfterErrorLeave(idx) == Len(TradingPairList) + 1

\* except Exception as e: self.logger.error(...) inside the for loop: the loop
\* goes on with the next pair.
AfterError(idx) == idx + 1

\* The position after the pair at index `next` is reached.
Advance(next, following) ==
    IF next > Len(TradingPairList)
    THEN [phase |-> following, idx |-> IF following = "idle" THEN 0 ELSE 1]
    ELSE [phase |-> cyc.phase, idx |-> next]

\* await self._update_market_data(): the for loop is entered.
BeginPass ==
    /\ cyc.phase = "idle"
    /\ cyc' = [NoPass EXCEPT !.phase = "update", !.idx = 1, !.ran = TRUE]
    /\ UNCHANGED <<stratVars, nonceVars, botVars, clientVars, symVars, monVars,
                   indVars, callVars>>

\* One iteration of the for loop of _update_market_data: the batch is
\* fetched and passed to update_market_data, which raises KeyError at
\* strategy.py:72 for a batch of no candles.
UpdateSymbol ==
    /\ cyc.phase = "update"
    /\ \E fetch \in FetchOutcomes :
         LET symbol == TradingPairList[cyc.idx]
             batch == IF fetch = "candles" THEN GetHistoricalData(symbol, HistoryLimit)
                      ELSE <<>>
             raises == batch = <<>>
             df == MarketFrame(batch, symbol)
             place == Advance(IF raises THEN AfterError(cyc.idx) ELSE cyc.idx + 1,
                              "signals")
         IN  /\ IF raises
                THEN /\ empty_fed' = empty_fed \cup {symbol}
                     /\ UNCHANGED <<market_data, counters>>
                ELSE /\ counters' = DictSet(counters, symbol,
                                            [countBuy  |-> df[Len(df)].countBuy,
                                             countSell |-> df[Len(df)].countSell])
                     /\ market_data' = DictSet(market_data, symbol,
                                               RetainedRows(df))
                     /\ empty_fed' = empty_fed \ {symbol}
             /\ cyc' = [cyc EXCEPT !.phase = place.phase, !.idx = place.idx,
                                   !.fetch[symbol] = IF batch # <<>> THEN "candles"
                                                     ELSE IF fetch = "candles" THEN "empty"
                                                     ELSE "failed",
                                   !.batch[symbol] = batch,
                                   !.updated = IF raises THEN @ ELSE @ \cup {symbol}]
    /\ generated' = NoCall
    /\ UNCHANGED <<ohlc, candles_left, nonceVars, botVars, clientVars, symVars,
                   monVars, indVars, callVars>>

\* One iteration of the for loop of _process_signals: generate_signal, and
\* for a Buy or a Sell _execute_signal, which raises TypeError at bot.py:323
\* when the account holds a balance and no position is tracked for the pair.
ProcessSymbol ==
    /\ cyc.phase = "signals"
    /\ \E funded \in BOOLEAN :
         LET symbol == TradingPairList[cyc.idx]
             result == GenerateSignal(symbol)
             raises == result # NoSignal /\ funded
             place == Advance(IF raises THEN AfterError(cyc.idx) ELSE cyc.idx + 1,
                              "idle")
         IN  /\ generated' = [symbol |-> symbol, result |-> result]
             /\ cyc' = [cyc EXCEPT !.phase = place.phase, !.idx = place.idx,
                                   !.handled[symbol] = [done |-> TRUE,
                                                        raised |-> raises,
                                                        result |-> result]]
    /\ UNCHANGED <<market_data, counters, empty_fed, ohlc, candles_left, nonceVars,
                   botVars, clientVars, symVars, monVars, indVars, callVars>>

CycleNext ==
    \/ \E symbol \in TradingPairs : NewCandle(symbol)
    \/ BeginPass
    \/ UpdateSymbol
    \/ ProcessSymbol

\* What the venue holds of a pair at the start: nothing, a single candle, or
\* a flat market one candle short of the history generate_signal asks for.
Histories == {<<>>, <<14>>, WarmUp}

InitCycle ==
    /\ NonceIdle
    /\ BotIdle
    /\ ClientIdle
    /\ SymIdle /\ CycIdle /\ MonIdle /\ CallIdle /\ IndIdle
    /\ market_data = <<>>
    /\ counters = <<>>
    /\ generated = NoCall
    /\ empty_fed = {}
    /\ ohlc \in [TradingPairs -> Histories]
    /\ candles_left = MaxWarmCandles

SpecCycle == InitCycle /\ [][CycleNext]_vars

\* C26: when a pass over the pairs has ended, every pair was fetched and
\* evaluated, whatever the other pairs met; every pair whose own fetch
\* delivered candles has the frame of that batch stored, and the signal
\* handled for it is the signal of that batch.
C26_FailuresStayWithTheirSymbol ==
    cyc.phase = "idle" /\ cyc.ran =>
        \A symbol \in TradingPairs :
            /\ cyc.fetch[symbol] # "none"
            /\ cyc.handled[symbol].done
            /\ cyc.batch[symbol] # <<>> =>
                 /\ symbol \in cyc.updated
                 /\ symbol \in DOMAIN market_data
                 /\ market_data[symbol] =
                        LastRows(MarketFrame(cyc.batch[symbol], symbol), RetainedCandles)
                 /\ cyc.handled[symbol].result = FreshSignal(cyc.batch[symbol])

\* A pass in which the fetch of the first pair failed and the second pair was
\* updated and its Buy handled.
C26_Witness ==
    /\ cyc.phase = "idle" /\ cyc.ran
    /\ cyc.fetch[TradingPairList[1]] = "failed"
    /\ cyc.fetch[TradingPairList[2]] = "candles"
    /\ TradingPairList[2] \in cyc.updated
    /\ cyc.handled[TradingPairList[2]].result.signal = "buy"

\* C13: the result of generate_signal(symbol) is a function of the batch last
\* passed to update_market_data for the symbol alone: whatever updates of this
\* and of other symbols went before, it is the signal a fresh engine derives
\* from that batch.
C13_SignalDeterminedByBatch ==
    generated # NoCall => generated.result = FreshSignal(LastBatch(generated.symbol))

\* A Buy was generated for a symbol whose last update was passed no candles.
C13_Witness ==
    /\ generated.result.signal = "buy"
    /\ generated.symbol \in empty_fed

\* C14: generate_signal returns no signal when the symbol has no stored
\* history or fewer candles than max(slow EMA period, RSI length + stochastic
\* length); otherwise it returns Buy of type bull iff the buysignal of the
\* latest stored candle is true, Sell of type bear iff its sellsignal is true,
\* and no signal otherwise.
C14_GenerateSignal ==
    generated # NoCall
        => LET symbol == generated.symbol
               result == generated.result
           IN  IF symbol \notin DOMAIN market_data
               THEN result = NoSignal
               ELSE LET rows == market_data[symbol]
                        latest == rows[Len(rows)]
                    IN  IF Len(rows) < SlowEmaPeriod
                           \/ Len(rows) < StochRsiLength + StochLength
                        THEN result = NoSignal
                        ELSE /\ (result.signal = "buy" /\ result.signal_type = "bull")
                                    <=> latest.buysignal
                             /\ (result.signal = "sell" /\ result.signal_type = "bear")
                                    <=> latest.sellsignal
                             /\ (result = NoSignal)
                                    <=> (~latest.buysignal /\ ~latest.sellsignal)
                             /\ result # NoSignal => result.price = latest.close

\* A Buy of type bull was generated from a frame of just enough candles whose
\* latest candle raised the buysignal.
C14_Witness ==
    /\ generated.result.signal = "buy"
    /\ generated.result.signal_type = "bull"
    /\ generated.symbol \in DOMAIN market_data
    /\ Len(market_data[generated.symbol]) = StochRsiLength + StochLength
    /\ market_data[generated.symbol][StochRsiLength + StochLength].buysignal

InitSymbol == NonceIdle /\ StratIdle /\ BotIdle /\ ClientIdle /\ SymIdle /\ CycIdle /\ MonIdle /\ CallIdle /\ IndIdle

SpecSymbol == InitSymbol /\ [][SymbolNext]_vars

\* C25: a canonical pair of two assets of the alias table, translated to the
\* venue and back, is the pair again.
C25_AliasRoundTrip ==
    (/\ translation.stage \in {"position", "currency"}
     /\ \A i \in 1..Len(translation.symbol) : translation.symbol[i] \in AliasKeys)
        => translation.back = translation.symbol

\* BTC/USDT has gone to the venue and has come back as the currencies of
\* get_balance, the base asset as BTC again.
C25_Witness ==
    /\ translation.stage = "currency"
    /\ translation.symbol = <<"BTC", "USDT">>
    /\ translation.pair = "XBTUSD"
    /\ translation.back[1] = "BTC"

InitClient == NonceIdle /\ StratIdle /\ BotIdle /\ ClientIdle /\ SymIdle /\ CycIdle /\ MonIdle /\ CallIdle /\ IndIdle

SpecClient == InitClient /\ [][ClientNext]_vars

\* A step that transmits a request; the request is last_request'.
TransmitStep == transmitted' = transmitted + 1

\* C15: a response of the invalid-key class sets the lockout to 15 minutes
\* from the time it is handled, one of the rate-limit class to 5 minutes;
\* both end the call as failed, with no retry pending.
C15_LockoutOnKeyAndRateLimit ==
    [][TransmitStep =>
         LET t == last_request'.task
             r == last_request'.response
         IN  /\ r = "invalid_key" =>
                  /\ lockout_until' = time_now' + KeyLockout
                  /\ cpc'[t] = "idle"
                  /\ call'[t].result = "failed"
             /\ r = "rate_limit" =>
                  /\ lockout_until' = time_now' + RateLimitLockout
                  /\ cpc'[t] = "idle"
                  /\ call'[t].result = "failed"]_vars

\* A call has failed on a rate-limit response while the lockout of an
\* earlier invalid-key response was running.
C15_Witness ==
    /\ last_request.response = "rate_limit"
    /\ last_request.lockout = last_request.at + KeyLockout
    /\ lockout_until = time_now + RateLimitLockout
    /\ call[last_request.task].result = "failed"

\* C16: a call transmits at most 1 + 3 requests; every retry carries a nonce
\* greater than the one of the attempt before it; an invalid-nonce response
\* leaves the lockout alone, schedules a retry while fewer than 3 retries
\* were made, and fails the call after the third retry.
C16_NonceRetry ==
    [][TransmitStep =>
         LET t == last_request'.task
             r == last_request'.response
             n == last_request'.retry
         IN  /\ n <= MaxNonceRetries
             /\ call'[t].sends = n + 1
             /\ n > 0 => /\ call[t].sends = n
                         /\ last_request'.nonce > call[t].nonce
             /\ r = "invalid_nonce" =>
                  /\ lockout_until' = lockout_until
                  /\ IF n < MaxNonceRetries
                     THEN cpc'[t] = "retry_sleep" /\ call'[t].result = "pending"
                     ELSE cpc'[t] = "idle" /\ call'[t].result = "failed"]_vars

\* The third retry of a call was answered with an invalid nonce again.
C16_Witness ==
    /\ last_request.response = "invalid_nonce"
    /\ last_request.retry = MaxNonceRetries
    /\ call[last_request.task].sends = MaxNonceRetries + 1
    /\ call[last_request.task].result = "failed"

\* C29: a response with a status other than 200, and a 200 response whose
\* error is neither an invalid key, an invalid nonce nor a rate limit, end the
\* call as failed with no retry pending and leave lockout_until as it was.
C29_OtherErrorsFailAtOnce ==
    [][TransmitStep /\ last_request'.response \in {"http_error", "other_error"} =>
         LET t == last_request'.task
         IN  /\ lockout_until' = lockout_until
             /\ cpc'[t] = "idle"
             /\ call'[t].result = "failed"
             /\ call'[t].sends = last_request'.retry + 1
             /\ transmitted' = transmitted + 1]_vars

\* A retry made after an invalid nonce was answered with a status other than
\* 200 while a lockout was running: the call failed and the lockout stands.
C29_Witness ==
    /\ last_request.response = "http_error"
    /\ last_request.retry > 0
    /\ last_request.lockout > last_request.at
    /\ lockout_until = last_request.lockout
    /\ call[last_request.task].result = "failed"
    /\ cpc[last_request.task] = "idle"

\* C17: no request is transmitted while a lockout is running.
C17_NoRequestDuringLockout ==
    transmitted > 0 => last_request.at >= last_request.lockout

\* A call waited for a lockout to expire and then transmitted its request.
C17_Witness ==
    \E t \in Tasks : /\ call[t].waited
                     /\ call[t].sends > 0
                     /\ last_request.task = t
                     /\ last_request.at >= last_request.lockout

\* C18: a call made while the lockout of an invalid-key response is running
\* returns a failure at once: it is not suspended and sends nothing.
C18_FailFastDuringLockout ==
    \A t \in Tasks :
        call[t].locked => /\ cpc[t] = "idle"
                          /\ call[t].result = "failed"
                          /\ call[t].sends = 0

\* A call made during the lockout of an invalid-key response has waited for
\* its end, sent its request and succeeded.
C18_Witness ==
    \E t \in Tasks : /\ call[t].locked
                     /\ call[t].waited
                     /\ call[t].sends = 1
                     /\ call[t].result = "ok"

\* C19: two requests transmitted one after the other are at least
\* min_request_interval apart.
C19_RequestsSpaced ==
    [][TransmitStep /\ transmitted > 0 =>
         last_request'.at - last_request.at >= MinRequestInterval]_vars

\* Both tasks were suspended in the rate-limit sleep at the same time.
C19_Witness ==
    /\ \A t \in Tasks : cpc[t] = "rate_sleep"
    /\ transmitted > 0

InitNonce == NonceIdle /\ StratIdle /\ BotIdle /\ ClientIdle /\ SymIdle /\ CycIdle /\ MonIdle /\ CallIdle /\ IndIdle

SpecNonce == InitNonce /\ [][NonceNext]_vars

\* C1: every nonce get_nonce returns is strictly greater than every nonce it
\* returned before, for any interleaving of the callers and whatever the
\* clock reads (the same value again, or a smaller one).
C1_NonceStrictlyIncreasing ==
    \A i, j \in 1..Len(issued) : i < j => issued[i].nonce < issued[j].nonce

\* Two threads were served, the second with a clock that had not advanced
\* past the first one's nonce, and a third with a clock that stepped back.
C1_Witness ==
    /\ Len(issued) >= 3
    /\ issued[1].by # issued[2].by
    /\ issued[2].clock = issued[1].clock
    /\ issued[3].clock < issued[1].clock
    /\ issued[2].nonce = issued[1].nonce + 1
    /\ issued[3].nonce = issued[2].nonce + 1

(***************************************************************************)
(* update_market_data on batches of any length.  A candle is its timestamp *)
(* (in candle intervals) and its close; the market is flat up to the last  *)
(* candle of a batch, so that the EMAs stay small numbers.                 *)
(***************************************************************************)
MaxBatchLen == 502      \* candles of the longest batch

BatchLengths ==
    {1, RetainedCandles - 1, RetainedCandles, RetainedCandles + 1,
     MaxDataPoints, MaxDataPoints + 1, MaxBatchLen}

\* The close of the candles before the last, and the closes of the last.
FlatClose == WarmUp[1]
LastCloses == {14, 27}

\* A batch as get_historical_data builds it, oldest candle first.
CandleBatch(n, last) ==
    [i \in 1..n |-> [timestamp |-> i, close |-> IF i = n THEN last ELSE FlatClose]]

\* The last row _calculate_counter_logic computes on candles of a flat market:
\* both EMAs of every candle before the last equal the close, so the row is
\* that of the scan of the last two candles.
LastRowOfFlatMarket(candles, symbol) ==
    LET tail == LastRows(candles, 2)
        rows == CalculateCounterLogic(
                    CalculateIndicators([i \in 1..Len(tail) |-> tail[i].close]), symbol)
    IN  rows[Len(rows)]

\* update_market_data(symbol, ohlcv_data) with a batch of at least one candle.
\* Of the frame the rows are kept, each with its index and its close; the
\* columns _calculate_indicators and _calculate_counter_logic add to a row
\* are left out, neither adds or drops a row.
UpdateMarketDataWith(symbol) ==
    /\ \E n \in BatchLengths, last \in LastCloses :
          LET df == IndicatorRows(CandleBatch(n, last))
              latest == LastRowOfFlatMarket(df, symbol)
          IN  /\ counters' = DictSet(counters, symbol,
                                     [countBuy  |-> latest.countBuy,
                                      countSell |-> latest.countSell])
              /\ market_data' = DictSet(market_data, symbol, RetainedRows(df))
              /\ fed' = [symbol |-> symbol, batch |-> CandleBatch(n, last),
                         indicator_rows |-> Len(df)]
    /\ generated' = NoCall
    /\ empty_fed' = empty_fed \ {symbol}
    /\ UNCHANGED <<ohlc, candles_left, placed, nonceVars, botVars, clientVars,
                   symVars, cycVars, monVars, indVars>>

WindowNext == \E symbol \in TradingPairs : UpdateMarketDataWith(symbol)

InitWindow ==
    /\ NonceIdle /\ StratIdle /\ BotIdle /\ ClientIdle
    /\ SymIdle /\ CycIdle /\ MonIdle /\ CallIdle /\ IndIdle

SpecWindow == InitWindow /\ [][WindowNext]_vars

\* C32: after a call of update_market_data with a batch of candles, the
\* window retained for the symbol holds the 200 most recent candles of the
\* batch, or all of them when the batch has fewer, oldest first, and the
\* indicators were computed over at most 500 candles.
C32_RetainedWindow ==
    fed # NoFeed =>
        LET batch == fed.batch
            window == market_data[fed.symbol]
            n == Len(batch)
            m == Len(window)
        IN  /\ m <= 200
            /\ m = (IF n < 200 THEN n ELSE 200)
            /\ \A i \in 1..m : window[i].timestamp = batch[n - m + i].timestamp
            /\ \A i \in 1..m : window[i].close = batch[n - m + i].close
            /\ \A i \in 1..(m - 1) : window[i].timestamp < window[i + 1].timestamp
            /\ fed.indicator_rows <= 500

\* A batch of more than 500 candles was passed: the indicators were computed
\* over 500 of them and 200 are retained, the last of them a candle that
\* closed higher.
C32_Witness ==
    /\ fed # NoFeed
    /\ Len(fed.batch) > 500
    /\ fed.indicator_rows = 500
    /\ Len(market_data[fed.symbol]) = 200
    /\ market_data[fed.symbol][200].close > FlatClose
    /\ counters[fed.symbol].countBuy = 1

(***************************************************************************)
(* Properties of the risk check and of the emergency stop                 *)
(***************************************************************************)
\* A step that is the whole of _check_risk_limits.
RiskCheckStep == pc = "risk" /\ pc' = "monitor"

\* C31: stats.max_drawdown never decreases from one step of a run to the
\* next, and after every risk check made with initial_balance > 0 it is at
\* least the current drawdown, which the check has just recomputed from the
\* two balances.
C31_MaxDrawdownNeverRolledBack ==
    [][/\ ~RatLess(stats'.max_drawdown, stats.max_drawdown)
       /\ RiskCheckStep /\ initial_balance > 0 =>
              /\ stats'.current_drawdown =
                     Rat(initial_balance - account_balance, initial_balance)
              /\ ~RatLess(stats'.max_drawdown, stats'.current_drawdown)]_vars

\* The risk check of the second cycle found a smaller drawdown than the first
\* one had recorded, and the record was kept.
C31_Witness ==
    /\ pc = "monitor"
    /\ cycles = 2
    /\ initial_balance > 0
    /\ RatLess(Rat(0, 1), stats.max_drawdown)
    /\ RatLess(stats.current_drawdown, stats.max_drawdown)

\* The entry orders among some requests.
EntryOrders(requests) == SelectSeq(requests, LAMBDA r : r.origin = "entry")

\* C33: a step taken with emergency_stop true transmits no entry order: none
\* in the rest of the cycle in which the stop was set, none afterwards.
C33_NoEntryAfterEmergencyStop ==
    [][emergency_stop => EntryOrders(NewRequests) = <<>>]_vars

\* The risk check stopped the bot in its first cycle; the cycle went on to its
\* end and the bot shut down, and no entry order is among the requests sent.
C33_Witness ==
    /\ emergency_stop
    /\ cycles = 1
    /\ pc = "done"
    /\ shutdown_log.liquidated
    /\ EntryOrders(sent) = <<>>

\* The records of liq_log that handle the position of a symbol.
PassesOver(symbol) == {i \in DOMAIN liq_log : liq_log[i].symbol = symbol}

\* C34: within one run the liquidation pass runs at most once: no position of
\* the venue is handled, and sent a closing order, a second time.
C34_LiquidationAtMostOnce ==
    \A i \in DOMAIN liq_log : Cardinality(PassesOver(liq_log[i].symbol)) <= 1

\* The bot has shut down after a risk check that found both limits exceeded:
\* each of the two positions was handled by three passes.
C34_Witness ==
    /\ pc = "done"
    /\ Len(liq_log) = 6
    /\ \A i \in DOMAIN liq_log : Cardinality(PassesOver(liq_log[i].symbol)) = 3

TighterLimitPct ==
    IF config.max_daily_loss < MaxDrawdownPct THEN config.max_daily_loss
    ELSE MaxDrawdownPct

\* C36: initial_balance is the balance start() took and no later step changes
\* it; a risk check made with initial_balance > 0 sets emergency_stop exactly
\* when the drawdown since start, (initial_balance - account_balance) /
\* initial_balance, exceeds min(max_drawdown, max_daily_loss).
C36_DailyLossIsDrawdown ==
    [][/\ pc # "start" => initial_balance' = initial_balance
       /\ RiskCheckStep /\ initial_balance > 0 =>
              emergency_stop' =
                  (\/ emergency_stop
                   \/ (initial_balance - account_balance) * 100
                          > TighterLimitPct * initial_balance)]_vars

\* A risk check of the second cycle, after the clock moved on, stopped the bot
\* for a drawdown above max_daily_loss that max_drawdown allows.
C36_Witness ==
    /\ pc = "monitor"
    /\ cycles = 2
    /\ now > 0
    /\ emergency_stop
    /\ initial_balance > 0
    /\ (initial_balance - account_balance) * 100 > config.max_daily_loss * initial_balance
    /\ (initial_balance - account_balance) * 100 <= MaxDrawdownPct * initial_balance

\* C37: a risk check made with initial_balance <= 0 changes neither
\* current_drawdown nor max_drawdown, does not set emergency_stop and closes
\* no position, whatever the current balance.
C37_NoRiskCheckWithoutInitialBalance ==
    [][RiskCheckStep /\ initial_balance <= 0 =>
          UNCHANGED <<stats, emergency_stop, liq_log, sent>>]_vars

\* The first get_balance failed, so initial_balance is 0; a later one gave a
\* balance, and the risk check of that cycle left everything as it was.
C37_Witness ==
    /\ pc = "monitor"
    /\ initial_balance = 0
    /\ account_balance > 0
    /\ ~emergency_stop
    /\ stats.current_drawdown = Rat(0, 1)
    /\ stats.max_drawdown = Rat(0, 1)

\* C38: no step resets emergency_stop once it is true, and while it is true
\* no cycle of the main loop begins: the loop test leads to the shutdown.
C38_EmergencyStopMonotonic ==
    [][emergency_stop =>
          /\ emergency_stop'
          /\ cycles' = cycles
          /\ pc = "loop" /\ pc' # pc => pc' = "shutdown"]_vars

\* The risk check of the first cycle stopped a bot nobody asked to stop; the
\* loop test that followed has led to the shutdown.
C38_Witness ==
    /\ emergency_stop
    /\ is_running
    /\ cycles = 1
    /\ pc = "shutdown"
    /\ shutdown_log = NoShutdown

(***************************************************************************)
(* place_order with all its arguments.  An optional argument is <<>> for   *)
(* None and <<v>> for a value v.                                            *)
(***************************************************************************)
OrderSymbols == {<<"BTC", "USDT">>, <<"XXBTZUSD">>}
OrderSides == {"buy", "SELL"}
OrderAmounts == {Rat(0, 1), Rat(1, 250)}
OrderPrices == {<<>>, <<0>>, <<50000>>}
OrderTypes == {"market", "limit"}
StopLosses == {<<>>, <<49000>>}
TakeProfits == {<<>>, <<52000>>}

\* side.lower()
Lower(side) ==
    CASE side = "BUY"  -> "buy"
      [] side = "SELL" -> "sell"
      [] OTHER         -> side

\* `and price`: None and 0 count as false.
Truthy(optional) == optional # <<>> /\ optional[1] # 0

\* Nothing was handed to _make_request.
NoOrderData == [raised |-> TRUE]

\* An order_data that carries the stops it was given.
OrderDataWithStops(symbol, side, amount, price, order_type, stop_loss, take_profit) ==
    LET conv == ConvertSymbolToKraken(symbol)
    IN  IF conv.raised THEN NoOrderData
        ELSE [raised |-> FALSE, pair |-> conv.pair, type |-> Lower(side),
              ordertype |-> order_type, volume |-> amount,
              price |-> IF order_type = "limit" /\ Truthy(price) THEN price ELSE <<>>,
              stops |-> <<stop_loss, take_profit>>]

\* place_order: the order_data handed to _make_request, which adds the nonce;
\* volume and price stand for their str(); a price of <<>> is a dict without
\* the key, stops is what the dict holds of stop_loss and take_profit.
OrderData(symbol, side, amount, price, order_type, stop_loss, take_profit) ==
    LET conv == ConvertSymbolToKraken(symbol)
    IN  IF conv.raised THEN NoOrderData
        ELSE [raised |-> FALSE, pair |-> conv.pair, type |-> Lower(side),
              ordertype |-> order_type, volume |-> amount,
              price |-> IF order_type = "limit" /\ Truthy(price) THEN price ELSE <<>>,
              stops |-> <<>>]

\* A call of place_order, and what it handed on.
OrderCall(args, stop_loss, take_profit) ==
    [stop_loss |-> stop_loss, take_profit |-> take_profit,
     order_data |-> OrderData(args.symbol, args.side, args.amount, args.price,
                              args.order_type, stop_loss, take_profit)]

\* place_order(symbol, side, amount, price, order_type, stop_loss, take_profit)
PlaceOrderFirst ==
    /\ \E symbol \in OrderSymbols, side \in OrderSides, amount \in OrderAmounts,
          price \in OrderPrices, order_type \in OrderTypes,
          stop_loss \in StopLosses, take_profit \in TakeProfits :
          LET args == [symbol |-> symbol, side |-> side, amount |-> amount,
                       price |-> price, order_type |-> order_type]
          IN  placed' = [args |-> args,
                         requests |-> <<OrderCall(args, stop_loss, take_profit)>>]
    /\ UNCHANGED <<fed, nonceVars, stratVars, botVars, clientVars, symVars, cycVars,
                   monVars, indVars>>

\* place_order once more, with the arguments of the call before but for
\* stop_loss and take_profit.
PlaceOrderAgain ==
    /\ Len(placed.requests) = 1
    /\ \E stop_loss \in StopLosses, take_profit \in TakeProfits :
          placed' = [placed EXCEPT
                        !.requests = Append(@, OrderCall(placed.args, stop_loss,
                                                         take_profit))]
    /\ UNCHANGED <<fed, nonceVars, stratVars, botVars, clientVars, symVars, cycVars,
                   monVars, indVars>>

OrderNext ==
    \/ PlaceOrderFirst
    \/ PlaceOrderAgain

InitOrder ==
    /\ NonceIdle /\ StratIdle /\ BotIdle /\ ClientIdle
    /\ SymIdle /\ CycIdle /\ MonIdle /\ CallIdle /\ IndIdle

SpecOrder == InitOrder /\ [][OrderNext]_vars

\* C39: two calls of place_order that differ in stop_loss and take_profit
\* only hand the same order parameters to the venue: pair, type, ordertype,
\* volume, and the price of a limit order; or both hand on nothing.
C39_StopsDoNotReachTheVenue ==
    Len(placed.requests) = 2 =>
        placed.requests[1].order_data = placed.requests[2].order_data

\* Two limit orders with a price went out, the first without stops, the
\* second with a stop loss and a take profit.
C39_Witness ==
    /\ Len(placed.requests) = 2
    /\ placed.requests[1].stop_loss = <<>>
    /\ placed.requests[1].take_profit = <<>>
    /\ placed.requests[2].stop_loss # <<>>
    /\ placed.requests[2].take_profit # <<>>
    /\ ~placed.requests[2].order_data.raised
    /\ placed.requests[2].order_data.ordertype = "limit"
    /\ placed.requests[2].order_data.price # <<>>

(***************************************************************************)
(* The alerts check_stoch_rsi_alerts never returns                         *)
(***************************************************************************)
\* C40: the bands being 20 < 50 < 80, no call of check_stoch_rsi_alerts
\* returns crossup_os or crossdown_ob: on every frame on which the oversold
\* test matches the middle band test for a crossover up matches, and on every
\* frame on which the overbought test matches the one for a crossover down.
C40_ExtremeCrossoversNeverReturned ==
    /\ LowerBand < MiddleBand /\ MiddleBand < UpperBand
    /\ 3 \in AlertMatches => 1 \in AlertMatches
    /\ 4 \in AlertMatches => 2 \in AlertMatches
    /\ alert.called => alert.result.alert_type \notin {"crossup_os", "crossdown_ob"}

\* A call on a frame on which %K rose above %D with %D below the lower band:
\* the oversold test matches, and the alert returned is crossup_mid.
C40_Witness ==
    /\ alert.called
    /\ 3 \in AlertMatches
    /\ FLt(alert.result.stoch_d, Num(LowerBand))
    /\ alert.result.alert_type = "crossup_mid"

=============================================================================
